---- MODULE Spec2Model ----
(***************************************************************************)
(* Negotiation platform core: the session state machine                    *)
(* (core/session.py), the offer model (domain/models.py), the event        *)
(* records (core/events.py) and the event bus (core/bus.py).               *)
(***************************************************************************)
EXTENDS Integers, Sequences, FiniteSets, TLC

(***************************************************************************)
(* Bounds of the model.                                                    *)
(***************************************************************************)
\* longest event history the model follows
MaxHistory == 4
\* most subscribe/unsubscribe/publish calls the bus model follows
MaxBusCalls == 4
\* last reading of the clock, in time units
MaxTime == 4
\* most events published while several threads poll the delay queue
MaxRaced == 2
\* most calls made on the scheduler from outside its loop
MaxSchedCalls == 3

(***************************************************************************)
(* Python's None.  An optional float that is set is the one-element tuple   *)
(* of its value, so that it can be told from None.                         *)
(***************************************************************************)
None == <<>>

Some(t) == <<t>>

(***************************************************************************)
(* core/events.py: event types, sender ids, the Event record.              *)
(***************************************************************************)
SEND_MESSAGE == "send_message"
SEND_OFFER == "send_offer"
SEND_EXPRESSION == "send_expression"
OFFER_IN_PROGRESS == "offer_in_progress"
TIME == "time"
FORMAL_ACCEPT == "formal_accept"
GAME_START == "game_start"
GAME_END == "game_end"

EventType ==
    {SEND_MESSAGE, SEND_OFFER, SEND_EXPRESSION, OFFER_IN_PROGRESS,
     TIME, FORMAL_ACCEPT, GAME_START, GAME_END}

HUMAN_ID == "human"
AGENT_ID == "agent"
SYSTEM_ID == "system"

\* Event(...): the dataclass constructor.  payload is a dict, here a
\* function whose domain is the set of keys present; an offer payload is a
\* dict from issue names to triples or None, <<>> being the empty dict.
\* event_id (a fresh uuid) and timestamp (time.time()) are given by the caller.
Event(event_type, sender_id, payload, delay_ms, event_id, timestamp) ==
    [event_type |-> event_type, sender_id |-> sender_id, payload |-> payload,
     delay_ms |-> delay_ms, event_id |-> event_id, timestamp |-> timestamp]

Event_send_offer(sender_id, offer_dict, event_id, timestamp) ==
    Event(SEND_OFFER, sender_id, [offer |-> offer_dict], 0, event_id, timestamp)

Event_formal_accept(sender_id, event_id, timestamp) ==
    Event(FORMAL_ACCEPT, sender_id, <<>>, 0, event_id, timestamp)

Event_game_start(event_id, timestamp) ==
    Event(GAME_START, SYSTEM_ID, <<>>, 0, event_id, timestamp)

Event_game_end(reason, event_id, timestamp) ==
    Event(GAME_END, SYSTEM_ID, [reason |-> reason], 0, event_id, timestamp)

Event_time_tick(event_id, timestamp) ==
    Event(TIME, SYSTEM_ID, <<>>, 0, event_id, timestamp)

\* event.get_offer(): the "offer" entry of a SEND_OFFER payload, else None
Event_get_offer(event) ==
    IF event.event_type = SEND_OFFER /\ "offer" \in DOMAIN event.payload
    THEN event.payload.offer
    ELSE None

(***************************************************************************)
(* domain/models.py: issues, allocations, offers, offer validation.        *)
(***************************************************************************)
\* GameSpec.issues, in list order, and Issue.quantity of each
Issues == <<"a", "b">>
Quantity == [a |-> 1, b |-> 2]

IssueNames == {Issues[k] : k \in 1..Len(Issues)}

Allocation(agent, middle, human) ==
    [agent |-> agent, middle |-> middle, human |-> human]

Allocation_total(alloc) == alloc.agent + alloc.middle + alloc.human

Allocation_is_complete(alloc) == alloc.middle = 0

Allocation_from_tuple(t) == Allocation(t[1], t[2], t[3])

Allocation_to_tuple(alloc) == <<alloc.agent, alloc.middle, alloc.human>>

Allocation_all_in_middle(quantity) == Allocation(0, quantity, 0)

\* is_complete letting a None entry pass
Offer_is_complete_skip_none(offer) ==
    IF DOMAIN offer = {}
    THEN FALSE
    ELSE \A name \in DOMAIN offer :
            offer[name] = None \/ Allocation_is_complete(offer[name])

\* Offer.is_complete(): false for an empty mapping, else every value of the
\* mapping is an allocation with nothing in the middle.  Only the names the
\* mapping holds are looked at.
Offer_is_complete(offer) ==
    IF DOMAIN offer = {}
    THEN FALSE
    ELSE \A name \in DOMAIN offer :
            offer[name] # None /\ Allocation_is_complete(offer[name])

\* Offer.__getitem__: allocations.get(issue_name)
Offer_getitem(offer, issue_name) ==
    IF issue_name \in DOMAIN offer THEN offer[issue_name] ELSE None

\* Offer.all_in_middle(issues)
Offer_all_in_middle ==
    [name \in IssueNames |-> Allocation_all_in_middle(Quantity[name])]

\* Offer.from_dict(data): a falsy value (None) stays None, a triple becomes
\* an Allocation
Offer_from_dict(data) ==
    [name \in DOMAIN data |->
        IF data[name] = None THEN None ELSE Allocation_from_tuple(data[name])]

\* Offer.to_dict()
Offer_to_dict(offer) ==
    [name \in DOMAIN offer |->
        IF offer[name] = None THEN None ELSE Allocation_to_tuple(offer[name])]

\* GameSpec.create_initial_offer()
create_initial_offer == Offer_all_in_middle

\* validate_offer rejecting only a total above the quantity
RECURSIVE validate_from_over_only(_, _)
validate_from_over_only(offer, k) ==
    IF k > Len(Issues)
    THEN TRUE
    ELSE LET alloc == Offer_getitem(offer, Issues[k])
         IN  IF alloc = None
             THEN validate_from_over_only(offer, k + 1)
             ELSE IF Allocation_total(alloc) > Quantity[Issues[k]]
                  THEN FALSE
                  ELSE validate_from_over_only(offer, k + 1)

\* GameSpec.validate_offer(offer): the loop over game.issues from index k on;
\* the first issue whose present allocation has the wrong total rejects
RECURSIVE validate_from(_, _)
validate_from(offer, k) ==
    IF k > Len(Issues)
    THEN TRUE
    ELSE LET alloc == Offer_getitem(offer, Issues[k])
         IN  IF alloc = None
             THEN validate_from(offer, k + 1)
             ELSE IF Allocation_total(alloc) # Quantity[Issues[k]]
                  THEN FALSE
                  ELSE validate_from(offer, k + 1)

validate_offer(offer) == validate_from(offer, 1)

(***************************************************************************)
(* core/session.py: state.                                                 *)
(***************************************************************************)
NOT_STARTED == "not_started"
IN_PROGRESS == "in_progress"
COMPLETED == "completed"
TIMED_OUT == "timed_out"
CANCELLED == "cancelled"

VARIABLES
    state,              \* NegotiationSession._state
    current_offer,      \* NegotiationSession._current_offer
    acceptance,         \* NegotiationSession._acceptance
    history,            \* NegotiationSession._history.events
    start_time,         \* NegotiationSession._start_time
    end_time,           \* NegotiationSession._end_time
    last_human_offer,   \* NegotiationSession._last_human_offer
    last_agent_offer,   \* NegotiationSession._last_agent_offer
    last_call,          \* the most recent call on the session and how it ended
    subscriptions,      \* EventBus._subscriptions
    delayed_queue,      \* EventBus._delayed_queue, the heap list of the queue
    dispatched,         \* the handler calls each _dispatch made, in order
    registered,         \* per subscriber id, the handler last subscribed
    bus_calls,          \* number of calls made on the bus
    now,                \* time.time(), in time units
    bus_last_call,      \* the most recent call on the bus and how it ended
    running,            \* EventBus._running
    pollers,            \* per thread, its position in the code of the queue
    on_ready_calls,     \* the events handed to EventBus._on_delayed_ready
    twin,               \* a second EventBus, fed the same delayed events
    sched_running,      \* Scheduler._running
    sched_start_time,   \* Scheduler._start_time
    deadline,           \* Scheduler._deadline
    actions,            \* Scheduler._actions
    loop,               \* the thread of Scheduler._run_loop and its locals
    executed,           \* the scheduled actions called, in order
    sched_published,    \* the events the scheduler published, in order
    cancelled,          \* the actions a cancel_action call removed
    sched_calls,        \* number of calls made on the scheduler
    sched_last_call,    \* the most recent call on the scheduler, its result
    games,              \* the GameSpec objects constructed
    game_last_call,     \* the most recent construction, its outcome
    serialized,         \* the most recent event serialized and read back
    ctx,                \* an AgentContext the app built, and what was done with it
    offer_alias,        \* who else refers to the Offer that is _current_offer
    timers,             \* the callbacks the app gave to root.after, pending
    app_executed,       \* the actions _execute_single_action was called with
    core,               \* a NegoChatCore: its game, strategy, stacks, proposal
    core_last_call,     \* the most recent call on it, its argument and result
    racers,             \* per thread, its position in apply_event
    inbox,              \* events published, which _on_event has yet to get
    agreed,             \* the offers the agent returned a FormalAccept for
    human_calls         \* number of things the human has done in the window

session_vars ==
    <<state, current_offer, acceptance, history, start_time, end_time,
      last_human_offer, last_agent_offer, last_call>>

bus_vars ==
    <<subscriptions, delayed_queue, dispatched, registered, bus_calls, now,
      bus_last_call>>

delay_vars == <<running, pollers, on_ready_calls, twin>>

sched_vars ==
    <<sched_running, sched_start_time, deadline, actions, loop, executed,
      sched_published, cancelled, sched_calls, sched_last_call>>

game_vars == <<games, game_last_call>>

codec_vars == <<serialized>>

ctx_vars == <<ctx, offer_alias>>

app_vars == <<timers, app_executed>>

chat_vars == <<core, core_last_call>>

run_vars == <<racers, inbox, agreed, human_calls>>

\* the variables of the parts that neither the session, the bus nor the
\* scheduler touch
rest_vars ==
    <<game_vars, codec_vars, ctx_vars, app_vars, chat_vars, run_vars>>

vars == <<session_vars, bus_vars, delay_vars, sched_vars, rest_vars>>

\* time.time(): the session's clock is logical, it counts the recorded events
time_time == Len(history)

\* uuid.uuid4(): an id no recorded event has, the number of recorded events
uuid4 == Len(history)

\* FormalAcceptance()
FormalAcceptance ==
    [human_accepted |-> FALSE, agent_accepted |-> FALSE,
     human_accepted_at |-> None, agent_accepted_at |-> None]

\* reset clearing the human's acceptance only
FormalAcceptance_reset_human_only(acc) ==
    [acc EXCEPT !.human_accepted = FALSE, !.human_accepted_at = None]

\* FormalAcceptance.reset()
FormalAcceptance_reset(acc) ==
    [acc EXCEPT !.human_accepted = FALSE, !.agent_accepted = FALSE,
                !.human_accepted_at = None, !.agent_accepted_at = None]

\* both_accepted with "or" for "and"
both_accepted_either(acc) == acc.human_accepted \/ acc.agent_accepted

\* FormalAcceptance.both_accepted()
both_accepted(acc) == acc.human_accepted /\ acc.agent_accepted

\* NegotiationSession.is_active
is_active == state = IN_PROGRESS

\* NegotiationSession.__init__
SessionInit ==
    /\ state = NOT_STARTED
    /\ current_offer = create_initial_offer
    /\ acceptance = FormalAcceptance
    /\ history = <<>>
    /\ start_time = None
    /\ end_time = None
    /\ last_human_offer = None
    /\ last_agent_offer = None
    /\ last_call = [op |-> "init", outcome |-> "returned", event_type |-> None]


(***************************************************************************)
(* core/session.py: operations.                                            *)
(***************************************************************************)
\* Python truthiness of a dict-or-None: None and the empty dict are falsy
Truthy(d) == d # None /\ DOMAIN d # {}

Terminal == {COMPLETED, TIMED_OUT, CANCELLED}

\* _complete_negotiation with the fallback branch ending in CANCELLED
complete_negotiation_fallback_cancelled(reason) ==
    /\ state' = IF reason = "timeout" THEN TIMED_OUT ELSE CANCELLED
    /\ end_time' = Some(time_time')

\* NegotiationSession._complete_negotiation(reason)
complete_negotiation(reason) ==
    /\ state' = IF reason = "timeout" THEN TIMED_OUT
                ELSE IF reason = "cancelled" THEN CANCELLED
                ELSE COMPLETED
    /\ end_time' = Some(time_time')

\* NegotiationSession._handle_offer(event)
handle_offer(event) ==
    LET offer_dict == Event_get_offer(event)
    IN  IF Truthy(offer_dict)
        THEN LET offer == Offer_from_dict(offer_dict)
             IN  IF ~validate_offer(offer)
                 THEN UNCHANGED <<state, current_offer, acceptance, end_time,
                                  last_human_offer, last_agent_offer>>
                 ELSE /\ current_offer' = offer
                      /\ IF event.sender_id = HUMAN_ID
                         THEN /\ last_human_offer' = offer
                              /\ UNCHANGED last_agent_offer
                         ELSE /\ last_agent_offer' = offer
                              /\ UNCHANGED last_human_offer
                      /\ acceptance' = FormalAcceptance_reset(acceptance)
                      /\ UNCHANGED <<state, end_time>>
        ELSE UNCHANGED <<state, current_offer, acceptance, end_time,
                         last_human_offer, last_agent_offer>>

\* _handle_formal_accept without the test of the current offer
handle_formal_accept_unchecked(event) ==
    /\ acceptance' =
           IF event.sender_id = HUMAN_ID
           THEN [acceptance EXCEPT !.human_accepted = TRUE,
                                   !.human_accepted_at = Some(event.timestamp)]
           ELSE [acceptance EXCEPT !.agent_accepted = TRUE,
                                   !.agent_accepted_at = Some(event.timestamp)]
    /\ IF both_accepted(acceptance')
       THEN complete_negotiation("mutual_agreement")
       ELSE UNCHANGED <<state, end_time>>
    /\ UNCHANGED <<current_offer, last_human_offer, last_agent_offer>>

\* NegotiationSession._handle_formal_accept(event)
handle_formal_accept(event) ==
    IF ~Offer_is_complete(current_offer)
    THEN UNCHANGED <<state, current_offer, acceptance, end_time,
                     last_human_offer, last_agent_offer>>
    ELSE /\ acceptance' =
                IF event.sender_id = HUMAN_ID
                THEN [acceptance EXCEPT !.human_accepted = TRUE,
                                        !.human_accepted_at =
                                            Some(event.timestamp)]
                ELSE [acceptance EXCEPT !.agent_accepted = TRUE,
                                        !.agent_accepted_at =
                                            Some(event.timestamp)]
         /\ IF both_accepted(acceptance')
            THEN complete_negotiation("mutual_agreement")
            ELSE UNCHANGED <<state, end_time>>
         /\ UNCHANGED <<current_offer, last_human_offer, last_agent_offer>>

\* NegotiationSession._handle_game_end(event)
handle_game_end(event) ==
    LET reason == IF "reason" \in DOMAIN event.payload
                  THEN event.payload.reason
                  ELSE "unknown"
    IN  /\ complete_negotiation(reason)
        /\ UNCHANGED <<current_offer, acceptance,
                       last_human_offer, last_agent_offer>>

\* Ignored with GAME_END let through like GAME_START and TIME
Ignored_end_exempt(event) ==
    ~is_active /\ event.event_type \notin {GAME_START, TIME, GAME_END}

\* Ignored testing "not yet started" where the code tests "not active"
Ignored_before_start(event) ==
    state = NOT_STARTED /\ event.event_type \notin {GAME_START, TIME}

\* the early return of apply_event: the event is dropped
Ignored(event) ==
    ~is_active /\ event.event_type \notin {GAME_START, TIME}

\* apply_event adding the event to the history before the early return
apply_event_record_first(event) ==
    /\ Len(history) < MaxHistory
    /\ history' = Append(history, event)
    /\ IF Ignored(event)
       THEN /\ last_call' = [op |-> "apply_event", outcome |-> "ignored",
                             event_type |-> event.event_type]
            /\ UNCHANGED <<state, current_offer, acceptance, end_time,
                           last_human_offer, last_agent_offer>>
       ELSE /\ IF event.event_type = SEND_OFFER THEN handle_offer(event)
               ELSE IF event.event_type = FORMAL_ACCEPT
                    THEN handle_formal_accept(event)
               ELSE IF event.event_type = GAME_END THEN handle_game_end(event)
               ELSE UNCHANGED <<state, current_offer, acceptance, end_time,
                                last_human_offer, last_agent_offer>>
            /\ last_call' = [op |-> "apply_event", outcome |-> "recorded",
                             event_type |-> event.event_type]
    /\ UNCHANGED start_time

\* apply_event past its early return: the event is added to the history
\* (while the history is shorter than limit) and handled by its type
record_and_handle(event, limit) ==
    /\ Len(history) < limit
    /\ history' = Append(history, event)
    /\ IF event.event_type = SEND_OFFER THEN handle_offer(event)
       ELSE IF event.event_type = FORMAL_ACCEPT
            THEN handle_formal_accept(event)
       ELSE IF event.event_type = GAME_END THEN handle_game_end(event)
       ELSE UNCHANGED <<state, current_offer, acceptance, end_time,
                        last_human_offer, last_agent_offer>>
    /\ last_call' = [op |-> "apply_event", outcome |-> "recorded",
                     event_type |-> event.event_type]
    /\ UNCHANGED start_time

\* NegotiationSession.apply_event(event), the history bounded by limit
apply_event_upto(event, limit) ==
    IF Ignored(event)
    THEN /\ last_call' = [op |-> "apply_event", outcome |-> "ignored",
                          event_type |-> event.event_type]
         /\ UNCHANGED <<state, current_offer, acceptance, history, start_time,
                        end_time, last_human_offer, last_agent_offer>>
    ELSE record_and_handle(event, limit)

\* NegotiationSession.apply_event(event)
apply_event(event) == apply_event_upto(event, MaxHistory)

\* NegotiationSession.start(): raises RuntimeError unless NOT_STARTED
start ==
    IF state # NOT_STARTED
    THEN /\ last_call' = [op |-> "start", outcome |-> "RuntimeError",
                          event_type |-> None]
         /\ UNCHANGED <<state, current_offer, acceptance, history, start_time,
                        end_time, last_human_offer, last_agent_offer>>
    ELSE /\ Len(history) < MaxHistory
         /\ state' = IN_PROGRESS
         /\ start_time' = Some(time_time)
         /\ history' = Append(history, Event_game_start(uuid4, time_time))
         /\ last_call' = [op |-> "start", outcome |-> "returned",
                          event_type |-> GAME_START]
         /\ UNCHANGED <<current_offer, acceptance, end_time,
                        last_human_offer, last_agent_offer>>

(***************************************************************************)
(* The events the environment (UI, agent, scheduler) hands to the session. *)
(***************************************************************************)
\* allocation triples an offer payload may carry for an issue: everything to
\* the agent, everything undecided, one unit too many; or None
AllocInputs(name) ==
    {<<Quantity[name], 0, 0>>, <<0, Quantity[name], 0>>,
     <<Quantity[name], 0, 1>>, None}

\* the agent claiming every unit of every issue
FullClaim == [name \in IssueNames |-> <<Quantity[name], 0, 0>>]

LastIssue == Issues[Len(Issues)]

\* offer payloads: the full claim with the last issue replaced by each of its
\* inputs, the full claim without the last issue, and the empty dict
OfferInputs ==
    {[name \in IssueNames |-> IF name = LastIssue THEN v ELSE FullClaim[name]] :
        v \in AllocInputs(LastIssue)}
    \cup {[name \in IssueNames \ {LastIssue} |-> FullClaim[name]]}
    \cup {<<>>}

Senders == {HUMAN_ID, AGENT_ID}

\* a GAME_END whose payload has no "reason" entry
Event_game_end_no_reason(event_id, timestamp) ==
    Event(GAME_END, SYSTEM_ID, <<>>, 0, event_id, timestamp)

EndReasons == {"timeout", "cancelled", "mutual_agreement"}

\* the events that may be applied next, each freshly created
EventInputs ==
    {Event_send_offer(s, d, uuid4, time_time) : s \in Senders, d \in OfferInputs}
    \cup {Event_formal_accept(s, uuid4, time_time) : s \in Senders}
    \cup {Event_game_end(r, uuid4, time_time) : r \in EndReasons}
    \cup {Event_game_end_no_reason(uuid4, time_time)}
    \cup {Event_time_tick(uuid4, time_time), Event_game_start(uuid4, time_time)}
    \cup {Event(t, HUMAN_ID, <<>>, 0, uuid4, time_time) :
            t \in {SEND_MESSAGE, SEND_EXPRESSION, OFFER_IN_PROGRESS}}

(***************************************************************************)
(* core/bus.py: the event bus.                                             *)
(***************************************************************************)
\* Subscription(handler, event_types, subscriber_id); event_types is None
\* (all types) or Some(set of types)
Subscription(handler, event_types, subscriber_id) ==
    [handler |-> handler, event_types |-> event_types,
     subscriber_id |-> subscriber_id]

\* EventBus.__init__
BusInit ==
    /\ subscriptions = <<>>
    /\ delayed_queue = <<>>
    /\ dispatched = <<>>
    /\ registered = [id \in {"app", "event_logger"} |-> None]
    /\ bus_calls = 0
    /\ now = 0
    /\ bus_last_call = [op |-> "init", outcome |-> "returned", event |-> None,
                        result |-> None]

\* the list without the subscriptions of subscriber_id
without(subs, subscriber_id) ==
    SelectSeq(subs, LAMBDA sub : sub.subscriber_id # subscriber_id)

\* subscribe appending without removing the earlier subscription
subscribe_append_only(subs, handler, subscriber_id, event_types) ==
    Append(subs, Subscription(handler, event_types, subscriber_id))

\* EventBus.subscribe: the new value of _subscriptions
subscribe_list(subs, handler, subscriber_id, event_types) ==
    Append(without(subs, subscriber_id),
           Subscription(handler, event_types, subscriber_id))

\* EventBus.subscribe(handler, subscriber_id, event_types)
subscribe(handler, subscriber_id, event_types) ==
    /\ bus_calls < MaxBusCalls
    /\ subscriptions' =
            subscribe_list(subscriptions, handler, subscriber_id, event_types)
    /\ registered' = [registered EXCEPT ![subscriber_id] = Some(handler)]
    /\ bus_calls' = bus_calls + 1
    /\ bus_last_call' =
            [op |-> "subscribe", outcome |-> "returned", event |-> None,
             result |-> None]
    /\ UNCHANGED <<delayed_queue, dispatched, now>>

\* EventBus.unsubscribe(subscriber_id)
unsubscribe(subscriber_id) ==
    /\ bus_calls < MaxBusCalls
    /\ subscriptions' = without(subscriptions, subscriber_id)
    /\ registered' = [registered EXCEPT ![subscriber_id] = None]
    /\ bus_calls' = bus_calls + 1
    /\ bus_last_call' =
            [op |-> "unsubscribe", outcome |-> "returned", event |-> None,
             result |-> None]
    /\ UNCHANGED <<delayed_queue, dispatched, now>>

\* the test of _dispatch with the type filter left out
matches_any_type(sub, event) == TRUE

\* the test of _dispatch: the subscription's filter lets the event through
matches(sub, event) ==
    sub.event_types = None \/ event.event_type \in sub.event_types[1]

\* the calls of the first n subscriptions of the list, whether they raised
\* or not
RECURSIVE calls_upto(_, _, _)
calls_upto(matching, failing, n) ==
    IF n = 0
    THEN <<>>
    ELSE Append(calls_upto(matching, failing, n - 1),
                [subscriber_id |-> matching[n].subscriber_id,
                 handler |-> matching[n].handler,
                 raised |-> matching[n].subscriber_id \in failing])

\* _dispatch without the try/except: the first handler that raises ends it
dispatch_calls_until_raise(subs, event, failing) ==
    LET matching == SelectSeq(subs, LAMBDA sub : matches(sub, event))
        raising == {k \in 1..Len(matching) :
                        matching[k].subscriber_id \in failing}
        last == IF raising = {}
                THEN Len(matching)
                ELSE CHOOSE k \in raising : \A l \in raising : k <= l
    IN  calls_upto(matching, failing, last)

\* EventBus._dispatch(event): the handlers called, in the order of the list
\* copied under the lock; failing is the set of subscribers whose handler
\* raises an Exception on this event, which is caught and printed
dispatch_calls(subs, event, failing) ==
    LET matching == SelectSeq(subs, LAMBDA sub : matches(sub, event))
    IN  calls_upto(matching, failing, Len(matching))

\* the handler calls _dispatch(event) makes from the k-th subscription of
\* its copy of the list on, in the order they begin.  The app's handler
\* (_on_event), given an event of the human, routes it to the agent and
\* executes the agent's actions; one without delay is published at once, a
\* reply that is dispatched to every subscriber before the handler returns.
RECURSIVE handler_calls(_, _, _, _)
handler_calls(subs, event, reply, k) ==
    IF k > Len(subs)
    THEN <<>>
    ELSE LET sub == subs[k]
             call == [subscriber_id |-> sub.subscriber_id,
                      handler |-> sub.handler, raised |-> FALSE,
                      event |-> event]
             nested == IF sub.handler = "on_event" /\ event.sender_id = HUMAN_ID
                       THEN handler_calls(subs, reply, reply, 1)
                       ELSE <<>>
         IN  IF matches(sub, event)
             THEN <<call>> \o nested \o handler_calls(subs, event, reply, k + 1)
             ELSE handler_calls(subs, event, reply, k + 1)

\* EventBus.publish(event) of a zero-delay event while the handlers are
\* those of the program: the app's publishes the agent's immediate reply
publish_reacting(event, reply) ==
    /\ bus_calls < MaxBusCalls
    /\ event.delay_ms = 0
    /\ bus_calls' = bus_calls + 1
    /\ dispatched' =
            Append(dispatched,
                   [event |-> event,
                    calls |-> handler_calls(subscriptions, event, reply, 1),
                    registered |-> registered,
                    by |-> "publish", at |-> now])
    /\ bus_last_call' =
            [op |-> "publish", outcome |-> "returned", event |-> event,
             result |-> None]
    /\ UNCHANGED <<subscriptions, delayed_queue, registered, now>>

\* x < y on (execute_at, event) tuples: the times decide unless they are
\* equal; equal events make equal tuples; otherwise the events are compared,
\* and Event defines no ordering
tuple_lt(x, y) ==
    IF x.execute_at # y.execute_at
    THEN IF x.execute_at < y.execute_at THEN "True" ELSE "False"
    ELSE IF x.event = y.event THEN "False" ELSE "TypeError"

\* heapq's _siftdown from position pos (1-based) towards the root: the item
\* is swapped with its parent while it is smaller; a comparison that raises
\* leaves the list as it is at that moment
RECURSIVE siftdown(_, _)
siftdown(heap, pos) ==
    IF pos <= 1
    THEN [heap |-> heap, raised |-> FALSE]
    ELSE LET parentpos == pos \div 2
             cmp == tuple_lt(heap[pos], heap[parentpos])
         IN  IF cmp = "TypeError" THEN [heap |-> heap, raised |-> TRUE]
             ELSE IF cmp = "False" THEN [heap |-> heap, raised |-> FALSE]
             ELSE siftdown([heap EXCEPT ![pos] = heap[parentpos],
                                        ![parentpos] = heap[pos]],
                           parentpos)

\* heapq.heappush(heap, item)
heappush(heap, item) == siftdown(Append(heap, item), Len(heap) + 1)

\* the clock moves on by one time unit, up to a limit
tick_upto(limit) ==
    /\ now < limit
    /\ now' = now + 1
    /\ UNCHANGED <<subscriptions, delayed_queue, dispatched, registered,
                   bus_calls, bus_last_call>>

\* the clock moves on by one time unit
tick == tick_upto(MaxTime)

\* EventBus.publish(event): a delayed event is put on the queue (the put
\* raises when the heap has to compare two events), any other is dispatched
publish(event, failing) ==
    /\ bus_calls < MaxBusCalls
    /\ bus_calls' = bus_calls + 1
    /\ IF event.delay_ms > 0
       THEN LET execute_at == now + event.delay_ms
                pushed == heappush(delayed_queue,
                                   [execute_at |-> execute_at, event |-> event])
            IN  /\ delayed_queue' = pushed.heap
                /\ bus_last_call' =
                        [op |-> "publish",
                         outcome |-> IF pushed.raised THEN "TypeError"
                                     ELSE "returned",
                         event |-> event, result |-> None]
                /\ UNCHANGED dispatched
       ELSE /\ dispatched' =
                    Append(dispatched,
                           [event |-> event,
                            calls |-> dispatch_calls(subscriptions, event,
                                                     failing),
                            registered |-> registered,
                            by |-> "publish", at |-> now])
            /\ bus_last_call' =
                    [op |-> "publish", outcome |-> "returned", event |-> event,
                     result |-> None]
            /\ UNCHANGED delayed_queue
    /\ UNCHANGED <<subscriptions, registered, now>>

\* heapq's _siftup, first part: from position pos the smaller child is
\* moved up until a leaf is reached; with two children the left one is
\* compared with the right one, and a comparison that raises ends it
RECURSIVE bubble(_, _)
bubble(heap, pos) ==
    IF pos > Len(heap) \div 2
    THEN [heap |-> heap, pos |-> pos, raised |-> FALSE]
    ELSE LET left == 2 * pos
             cmp == IF left + 1 <= Len(heap)
                    THEN tuple_lt(heap[left], heap[left + 1])
                    ELSE "True"
             childpos == IF cmp = "True" THEN left ELSE left + 1
         IN  IF cmp = "TypeError"
             THEN [heap |-> heap, pos |-> pos, raised |-> TRUE]
             ELSE bubble([heap EXCEPT ![pos] = heap[childpos],
                                      ![childpos] = heap[pos]],
                         childpos)

\* heapq's _siftup(heap, pos): the item is taken down to a leaf and from
\* there sifted towards the root
siftup(heap, pos) ==
    LET b == bubble(heap, pos)
    IN  IF b.raised THEN [heap |-> b.heap, raised |-> TRUE]
        ELSE siftdown(b.heap, b.pos)

\* heapq.heappop(heap) on a heap that is not empty: the last item takes the
\* place of the first, which is returned; when a comparison raises, the
\* item that was first is in the list no more and is not returned either
heappop(heap) ==
    LET n == Len(heap)
        lastelt == heap[n]
        rest == SubSeq(heap, 1, n - 1)
    IN  IF n = 1
        THEN [heap |-> <<>>, item |-> lastelt, raised |-> FALSE]
        ELSE LET s == siftup([rest EXCEPT ![1] = lastelt], 1)
             IN  [heap |-> s.heap,
                  item |-> IF s.raised THEN None ELSE rest[1],
                  raised |-> s.raised]

\* the loop of process_delayed_events with now read as t: items are taken
\* off the queue while they are due; the first one that is not due is put
\* back and ends the loop; a TypeError of the queue is not caught.  events
\* are the events dispatched so far.
RECURSIVE drain(_, _, _)
drain(heap, t, events) ==
    IF heap = <<>>
    THEN [heap |-> heap, events |-> events, raised |-> FALSE]
    ELSE LET got == heappop(heap)
         IN  IF got.raised
             THEN [heap |-> got.heap, events |-> events, raised |-> TRUE]
             ELSE IF got.item.execute_at <= t
                  THEN drain(got.heap, t, Append(events, got.item.event))
                  ELSE LET back == heappush(got.heap, got.item)
                       IN  [heap |-> back.heap, events |-> events,
                            raised |-> back.raised]

\* the records of the _dispatch calls made for events, in order
dispatch_all(events, failing) ==
    [k \in 1..Len(events) |->
        [event |-> events[k],
         calls |-> dispatch_calls(subscriptions, events[k], failing),
         registered |-> registered,
         by |-> "process_delayed_events", at |-> now]]

\* EventBus.process_delayed_events(): returns the events it dispatched
process_delayed_events(failing) ==
    LET r == drain(delayed_queue, now, <<>>)
    IN  /\ delayed_queue' = r.heap
        /\ dispatched' = dispatched \o dispatch_all(r.events, failing)
        /\ bus_last_call' =
                [op |-> "process_delayed_events",
                 outcome |-> IF r.raised THEN "TypeError" ELSE "returned",
                 event |-> None,
                 result |-> IF r.raised THEN None ELSE r.events]
        /\ UNCHANGED <<subscriptions, registered, bus_calls, now>>

\* EventBus.get_next_delay(): the first item is taken off the queue and put
\* back; the time left until it is due, at least 0, or None for no item
get_next_delay ==
    IF delayed_queue = <<>>
    THEN /\ bus_last_call' = [op |-> "get_next_delay", outcome |-> "returned",
                              event |-> None, result |-> None]
         /\ UNCHANGED <<subscriptions, delayed_queue, dispatched, registered,
                        bus_calls, now>>
    ELSE LET got == heappop(delayed_queue)
             back == heappush(got.heap, got.item)
             left == got.item.execute_at - now
         IN  /\ delayed_queue' = IF got.raised THEN got.heap ELSE back.heap
             /\ bus_last_call' =
                    [op |-> "get_next_delay",
                     outcome |-> IF got.raised \/ back.raised
                                 THEN "TypeError" ELSE "returned",
                     event |-> None,
                     result |-> IF got.raised \/ back.raised THEN None
                                ELSE Some(IF left > 0 THEN left ELSE 0)]
             /\ UNCHANGED <<subscriptions, dispatched, registered, bus_calls,
                            now>>

(***************************************************************************)
(* core/bus.py: the delay queue polled by several threads.  "delay_loop"   *)
(* is the thread start_delay_processor starts, "caller" a thread that      *)
(* calls process_delayed_events() or get_next_delay() itself.  Each get    *)
(* and put of the queue is one step (the queue has its own mutex); what is *)
(* between them is interleaved with the other threads.                     *)
(***************************************************************************)
\* time.sleep(0.05) of _delay_loop, in time units (one unit is 25 ms)
PollInterval == 2

PollerIds == {"delay_loop", "caller"}

\* a thread outside the code of the queue; pc "none" is a thread not started
Poller(pc, wake) ==
    [pc |-> pc, op |-> None, now |-> 0, held |-> None, events |-> <<>>,
     wake |-> wake]

\* EventBus.__init__: no delay thread, the processor not running
DelayInit ==
    /\ running = FALSE
    /\ pollers = [th \in PollerIds |->
                    IF th = "delay_loop" THEN Poller("none", 0)
                    ELSE Poller("idle", 0)]
    /\ on_ready_calls = <<>>
    /\ twin = [queue |-> <<>>, dispatched |-> <<>>]

\* EventBus.start_delay_processor(on_ready), called once
start_delay_processor ==
    /\ pollers["delay_loop"].pc = "none"
    /\ running' = TRUE
    /\ pollers' = [pollers EXCEPT !["delay_loop"] = Poller("ready", 0)]
    /\ UNCHANGED <<bus_vars, on_ready_calls, twin>>

\* EventBus.stop_delay_processor(): the thread sees the flag at its next
\* turn of the loop
stop_delay_processor ==
    /\ running
    /\ running' = FALSE
    /\ UNCHANGED <<bus_vars, pollers, on_ready_calls, twin>>

\* _delay_loop: "while self._running", then the call of
\* process_delayed_events, which reads the clock first
loop_next ==
    LET me == pollers["delay_loop"]
    IN  /\ me.pc = "ready" \/ (me.pc = "sleep" /\ now >= me.wake)
        /\ pollers' =
                [pollers EXCEPT !["delay_loop"] =
                    IF running
                    THEN [me EXCEPT !.pc = "loop",
                                    !.op = "process_delayed_events",
                                    !.now = now, !.events = <<>>]
                    ELSE Poller("exited", 0)]
        /\ UNCHANGED <<bus_vars, running, on_ready_calls, twin>>

\* the caller enters process_delayed_events() or get_next_delay()
call_begin(op) ==
    /\ pollers["caller"].pc = "idle"
    /\ pollers' =
            [pollers EXCEPT !["caller"] =
                [@ EXCEPT !.pc = IF op = "get_next_delay" THEN "peek"
                                 ELSE "loop",
                          !.op = op, !.now = now, !.events = <<>>]]
    /\ UNCHANGED <<bus_vars, running, on_ready_calls, twin>>

\* the call of thread th ends, with a TypeError when raised: the caller gets
\* the result or the exception; _delay_loop hands the events to on_ready
\* and sleeps, and an exception ends its thread
call_end(th, raised, result) ==
    IF th = "caller"
    THEN /\ pollers' = [pollers EXCEPT ![th] = Poller("idle", 0)]
         /\ bus_last_call' =
                [op |-> pollers[th].op,
                 outcome |-> IF raised THEN "TypeError" ELSE "returned",
                 event |-> None,
                 result |-> IF raised THEN None ELSE result]
         /\ UNCHANGED on_ready_calls
    ELSE /\ pollers' =
                [pollers EXCEPT ![th] =
                    IF raised THEN Poller("dead", 0)
                    ELSE Poller("sleep", now + PollInterval)]
         /\ on_ready_calls' =
                IF raised THEN on_ready_calls ELSE on_ready_calls \o result
         /\ UNCHANGED bus_last_call

\* process_delayed_events, "while not self._delayed_queue.empty()" and
\* get_nowait(): the loop ends on an empty queue, else the first item is
\* taken off
poll_get(th) ==
    LET me == pollers[th]
        got == heappop(delayed_queue)
    IN  /\ me.pc = "loop"
        /\ IF delayed_queue = <<>>
           THEN call_end(th, FALSE, me.events) /\ UNCHANGED delayed_queue
           ELSE /\ delayed_queue' = got.heap
                /\ IF got.raised
                   THEN call_end(th, TRUE, None)
                   ELSE /\ pollers' = [pollers EXCEPT ![th] =
                                    [me EXCEPT !.pc = "got",
                                               !.held = got.item]]
                        /\ UNCHANGED <<bus_last_call, on_ready_calls>>
        /\ UNCHANGED <<subscriptions, dispatched, registered, bus_calls, now,
                       running, twin>>

\* process_delayed_events, after get_nowait(): an item that is due by the
\* clock reading of the call is dispatched, any other is put back and ends
\* the loop
poll_got(th, failing) ==
    LET me == pollers[th]
        back == heappush(delayed_queue, me.held)
    IN  /\ me.pc = "got"
        /\ IF me.held.execute_at <= me.now
           THEN /\ dispatched' =
                        dispatched \o dispatch_all(<<me.held.event>>, failing)
                /\ pollers' = [pollers EXCEPT ![th] =
                        [me EXCEPT !.pc = "loop", !.held = None,
                                   !.events = Append(@, me.held.event)]]
                /\ UNCHANGED <<delayed_queue, bus_last_call, on_ready_calls>>
           ELSE /\ delayed_queue' = back.heap
                /\ call_end(th, back.raised, me.events)
                /\ UNCHANGED dispatched
        /\ UNCHANGED <<subscriptions, registered, bus_calls, now, running,
                       twin>>

\* get_next_delay, get_nowait(): None on an empty queue, else the first
\* item is taken off
peek_get ==
    LET me == pollers["caller"]
        got == heappop(delayed_queue)
    IN  /\ me.pc = "peek"
        /\ IF delayed_queue = <<>>
           THEN call_end("caller", FALSE, None) /\ UNCHANGED delayed_queue
           ELSE /\ delayed_queue' = got.heap
                /\ IF got.raised
                   THEN call_end("caller", TRUE, None)
                   ELSE /\ pollers' = [pollers EXCEPT !["caller"] =
                                    [me EXCEPT !.pc = "peeked",
                                               !.held = got.item]]
                        /\ UNCHANGED <<bus_last_call, on_ready_calls>>
        /\ UNCHANGED <<subscriptions, dispatched, registered, bus_calls, now,
                       running, twin>>

\* get_next_delay, put() of the item taken off and the return of the time
\* left
peek_put ==
    LET me == pollers["caller"]
        back == heappush(delayed_queue, me.held)
        left == me.held.execute_at - now
    IN  /\ me.pc = "peeked"
        /\ delayed_queue' = back.heap
        /\ call_end("caller", back.raised, Some(IF left > 0 THEN left ELSE 0))
        /\ UNCHANGED <<subscriptions, dispatched, registered, bus_calls, now,
                       running, twin>>

\* publish(event) made on this bus and on the second one
publish_both(event) ==
    /\ publish(event, {})
    /\ twin' = [twin EXCEPT !.queue =
                    heappush(@, [execute_at |-> now + event.delay_ms,
                                 event |-> event]).heap]
    /\ UNCHANGED <<running, pollers, on_ready_calls>>

\* process_delayed_events() called on the second bus, which has no delay
\* thread
twin_process_delayed_events ==
    LET r == drain(twin.queue, now, <<>>)
    IN  /\ twin' = [queue |-> r.heap,
                    dispatched |-> twin.dispatched \o r.events]
        /\ UNCHANGED <<bus_vars, running, pollers, on_ready_calls>>

\* _delay_loop keeps its pace: it is neither at work nor due to wake up
LoopKeepsUp ==
    LET me == pollers["delay_loop"]
    IN  \/ me.pc \in {"none", "dead", "exited"}
        \/ me.pc = "sleep" /\ now < me.wake

(***************************************************************************)
(* core/scheduler.py: the scheduler.  Its loop runs on a thread of its     *)
(* own; start, stop, set_deadline, schedule_action and cancel_action are   *)
(* called from other threads, between any two steps of the loop.           *)
(***************************************************************************)
\* time_tick_interval_ms / 1000.0, in time units
TickInterval == 1

\* ScheduledAction(execute_at, action, action_id); serial tells apart two
\* actions scheduled with the same values
ScheduledAction(execute_at, action, action_id, serial) ==
    [execute_at |-> execute_at, action |-> action, action_id |-> action_id,
     serial |-> serial]

\* the locals of _run_loop; pc "none" is a thread not started
Loop(pc, last_tick) ==
    [pc |-> pc, now |-> 0, last_tick |-> last_tick, to_run |-> <<>>]

\* Scheduler.__init__ with no deadline
SchedInit ==
    /\ sched_running = FALSE
    /\ sched_start_time = 0
    /\ deadline = None
    /\ actions = <<>>
    /\ loop = Loop("none", 0)
    /\ executed = <<>>
    /\ sched_published = <<>>
    /\ cancelled = {}
    /\ sched_calls = 0
    /\ sched_last_call = [op |-> "init", arg |-> None, result |-> None]

\* a call from outside the loop is made and returns result
sched_call(op, arg, result) ==
    /\ sched_calls < MaxSchedCalls
    /\ sched_calls' = sched_calls + 1
    /\ sched_last_call' = [op |-> op, arg |-> arg, result |-> result]

\* Scheduler.start(): nothing when running; else the loop thread is
\* started (the thread of an earlier run has ended: stop() joins it)
sched_start ==
    /\ sched_call("start", None, None)
    /\ IF sched_running
       THEN UNCHANGED <<sched_running, sched_start_time, loop>>
       ELSE /\ loop.pc \in {"none", "exited"}
            /\ sched_start_time' = now
            /\ sched_running' = TRUE
            /\ loop' = Loop("ready", now)
    /\ UNCHANGED <<deadline, actions, executed, sched_published, cancelled>>

\* Scheduler.stop(): the loop sees the flag at its next turn
sched_stop ==
    /\ sched_call("stop", None, None)
    /\ sched_running' = FALSE
    /\ UNCHANGED <<sched_start_time, deadline, actions, loop, executed,
                   sched_published, cancelled>>

\* Scheduler.set_deadline(seconds)
set_deadline(seconds) ==
    /\ sched_call("set_deadline", seconds, None)
    /\ deadline' = seconds
    /\ UNCHANGED <<sched_running, sched_start_time, actions, loop, executed,
                   sched_published, cancelled>>

\* schedule_action appending without sorting
append_unsorted(list, scheduled) == Append(list, scheduled)

\* append(scheduled) and the stable sort by execute_at of a sorted list
append_and_sort(list, scheduled) ==
    LET before == SelectSeq(list, LAMBDA a :
                                a.execute_at <= scheduled.execute_at)
        after == SelectSeq(list, LAMBDA a :
                                a.execute_at > scheduled.execute_at)
    IN  before \o <<scheduled>> \o after

\* Scheduler.schedule_action(delay_ms, action, action_id), under the lock
schedule_action(delay_ms, action, action_id) ==
    /\ sched_call("schedule_action", action_id, action_id)
    /\ actions' = append_and_sort(actions,
                        ScheduledAction(now + delay_ms, action, action_id,
                                        sched_calls))
    /\ UNCHANGED <<sched_running, sched_start_time, deadline, loop, executed,
                   sched_published, cancelled>>

\* cancel_action answering for the action without removing it
cancel_action_keep(action_id) ==
    LET found == {k \in 1..Len(actions) : actions[k].action_id = action_id}
    IN  /\ sched_call("cancel_action", action_id, found # {})
        /\ cancelled' = cancelled \cup {actions[k] : k \in found}
        /\ UNCHANGED <<sched_running, sched_start_time, deadline, actions,
                       loop, executed, sched_published>>

\* Scheduler.cancel_action(action_id), under the lock: the actions with
\* that id leave the list; true when the list got shorter
cancel_action(action_id) ==
    LET kept == SelectSeq(actions, LAMBDA a : a.action_id # action_id)
        found == {k \in 1..Len(actions) : actions[k].action_id = action_id}
    IN  /\ sched_call("cancel_action", action_id, Len(kept) < Len(actions))
        /\ actions' = kept
        /\ cancelled' = cancelled \cup {actions[k] : k \in found}
        /\ UNCHANGED <<sched_running, sched_start_time, deadline, loop,
                       executed, sched_published>>

\* _run_loop: "while self._running" and "now = time.time()"
loop_turn ==
    /\ loop.pc \in {"ready", "sleep"}
    /\ loop' = IF sched_running
               THEN [loop EXCEPT !.pc = "process", !.now = now]
               ELSE [loop EXCEPT !.pc = "exited"]
    /\ UNCHANGED <<sched_running, sched_start_time, deadline, actions,
                   executed, sched_published, cancelled, sched_calls,
                   sched_last_call>>

\* the number of actions "while self._actions and
\* self._actions[0].execute_at <= now" pops off the front of the list
RECURSIVE due_from(_, _, _)
due_from(list, t, k) ==
    IF k <= Len(list) /\ list[k].execute_at <= t
    THEN due_from(list, t, k + 1)
    ELSE k - 1

\* _process_actions(now), under the lock: the due actions leave the list
loop_take ==
    LET n == due_from(actions, loop.now, 1)
    IN  /\ loop.pc = "process"
        /\ loop' = [loop EXCEPT !.pc = "run",
                                !.to_run = SubSeq(actions, 1, n)]
        /\ actions' = SubSeq(actions, n + 1, Len(actions))
        /\ UNCHANGED <<sched_running, sched_start_time, deadline, executed,
                       sched_published, cancelled, sched_calls,
                       sched_last_call>>

\* _process_actions, outside the lock: the next action taken is called; an
\* Exception it raises is caught and printed
loop_run ==
    LET action == Head(loop.to_run)
    IN  /\ loop.pc = "run"
        /\ loop.to_run # <<>>
        /\ executed' = Append(executed,
                [action |-> action, at |-> now,
                 raised |-> action.action = "raises"])
        /\ loop' = [loop EXCEPT !.to_run = Tail(loop.to_run)]
        /\ UNCHANGED <<sched_running, sched_start_time, deadline, actions,
                       sched_published, cancelled, sched_calls,
                       sched_last_call>>

\* Scheduler.get_remaining(): max(0, deadline - elapsed), a deadline being
\* set
get_remaining ==
    LET left == deadline[1] - (now - sched_start_time)
    IN  IF left > 0 THEN left ELSE 0

\* Scheduler.is_timed_out()
is_timed_out == deadline # None /\ get_remaining <= 0

\* the event published by the scheduler, with the run it belongs to
Published(event_type, payload) ==
    [event_type |-> event_type, payload |-> payload, at |-> now,
     run |-> sched_start_time]

\* the rest of a turn of _run_loop with _handle_timeout leaving the loop
\* running
loop_finish_keep_running ==
    LET ticks == loop.now - loop.last_tick >= TickInterval
        time_event == Published(TIME,
                        [elapsed |-> now - sched_start_time,
                         remaining |-> IF deadline = None THEN None
                                       ELSE Some(get_remaining)])
        ticked == IF ticks THEN Append(sched_published, time_event)
                  ELSE sched_published
    IN  /\ loop.pc = "run"
        /\ loop.to_run = <<>>
        /\ sched_published' =
                IF is_timed_out
                THEN Append(ticked, Published(GAME_END, [reason |-> "timeout"]))
                ELSE ticked
        /\ loop' = [loop EXCEPT !.pc = "sleep",
                                !.last_tick = IF ticks THEN loop.now ELSE @]
        /\ UNCHANGED <<sched_running, sched_start_time, deadline, actions,
                       executed, cancelled, sched_calls, sched_last_call>>

\* the rest of a turn of _run_loop: a TIME event when a tick interval has
\* passed since the last one (_emit_time_tick); when the deadline has been
\* reached, _handle_timeout (the flag is cleared, GAME_END "timeout" is
\* published) and the loop is left; else the loop sleeps
loop_finish ==
    LET ticks == loop.now - loop.last_tick >= TickInterval
        time_event == Published(TIME,
                        [elapsed |-> now - sched_start_time,
                         remaining |-> IF deadline = None THEN None
                                       ELSE Some(get_remaining)])
        ticked == IF ticks THEN Append(sched_published, time_event)
                  ELSE sched_published
    IN  /\ loop.pc = "run"
        /\ loop.to_run = <<>>
        /\ IF is_timed_out
           THEN /\ sched_running' = FALSE
                /\ sched_published' =
                        Append(ticked,
                               Published(GAME_END, [reason |-> "timeout"]))
                /\ loop' = [loop EXCEPT !.pc = "exited",
                                !.last_tick = IF ticks THEN loop.now ELSE @]
           ELSE /\ sched_published' = ticked
                /\ loop' = [loop EXCEPT !.pc = "sleep",
                                !.last_tick = IF ticks THEN loop.now ELSE @]
                /\ UNCHANGED sched_running
        /\ UNCHANGED <<sched_start_time, deadline, actions, executed,
                       cancelled, sched_calls, sched_last_call>>

(***************************************************************************)
(* domain/models.py, domain/games/multi_issue.py: the construction of a    *)
(* GameSpec.  A value map is a function from issue names to values.        *)
(***************************************************************************)
\* Party
AGENT == "agent"

HUMAN == "human"

\* UtilityFunction(party, values)
UtilityFunction(party, values) == [party |-> party, values |-> values]

\* the issue names of a list of issues
issue_names_of(issues) == {issues[k].name : k \in 1..Len(issues)}

\* __post_init__ comparing the agent's value map only
post_init_agent_only(issues, agent_utility, human_utility) ==
    IF issue_names_of(issues) # DOMAIN agent_utility.values
    THEN [outcome |-> "ValueError", message |-> "Agent utility mismatch",
          game |-> None]
    ELSE [outcome |-> "returned", message |-> "",
          game |-> Some([issues |-> issues,
                         agent_utility |-> agent_utility,
                         human_utility |-> human_utility,
                         issue_singular_names |->
                            [n \in issue_names_of(issues) |-> n]])]

\* GameSpec.__post_init__: ValueError when the keys of a value map are not
\* the issue names, the agent's map first; else the default display names
\* are filled in
post_init(issues, agent_utility, human_utility) ==
    LET issue_names == issue_names_of(issues)
        agent_issues == DOMAIN agent_utility.values
        human_issues == DOMAIN human_utility.values
    IN  IF issue_names # agent_issues
        THEN [outcome |-> "ValueError", message |-> "Agent utility mismatch",
              game |-> None]
        ELSE IF issue_names # human_issues
        THEN [outcome |-> "ValueError", message |-> "Human utility mismatch",
              game |-> None]
        ELSE [outcome |-> "returned", message |-> "",
              game |-> Some([issues |-> issues,
                             agent_utility |-> agent_utility,
                             human_utility |-> human_utility,
                             issue_singular_names |->
                                [n \in issue_names |-> n]])]

\* no GameSpec has been constructed
GameInit ==
    /\ games = {}
    /\ game_last_call = [op |-> "init", issues |-> <<>>, agent_values |-> <<>>,
                         human_values |-> <<>>, outcome |-> "returned",
                         message |-> ""]

\* MultiIssueBargainingGame.create(items, agent_values, human_values): the
\* issues and the two utility functions are built and GameSpec(...) is
\* constructed from them
create(items, agent_values, human_values) ==
    LET issues == [k \in 1..Len(items) |->
                        [name |-> items[k], display_name |-> items[k],
                         quantity |-> 1]]
        made == post_init(issues, UtilityFunction(AGENT, agent_values),
                          UtilityFunction(HUMAN, human_values))
    IN  /\ games' = IF made.outcome = "returned"
                    THEN games \cup {made.game[1]} ELSE games
        /\ game_last_call' =
                [op |-> "create", issues |-> issues,
                 agent_values |-> agent_values,
                 human_values |-> human_values, outcome |-> made.outcome,
                 message |-> made.message]

\* the items and value maps games are constructed from: item lists with
\* none, one or two names and with a name twice; value maps over every
\* subset of three names
ItemInputs == {<<>>, <<"a">>, <<"a", "b">>, <<"a", "a">>}

ValueMaps == UNION {[keys -> {1}] : keys \in SUBSET {"a", "b", "c"}}

(***************************************************************************)
(* core/events.py: an event written to a dict and read back.  An enum      *)
(* member and its value are different things: the dict holds the values.   *)
(***************************************************************************)
\* MessageSubtype, the members the program uses
MessageSubtype == {"generic", "offer_propose", "offer_accept", "offer_reject"}

\* Event(...) with its subtype, None or Some(member)
Event_subtyped(event_type, sender_id, payload, delay_ms, event_id, timestamp, subtype) ==
    [event_type |-> event_type, sender_id |-> sender_id, payload |-> payload,
     delay_ms |-> delay_ms, event_id |-> event_id, timestamp |-> timestamp,
     subtype |-> subtype]

\* member.value: the str of an enum member
value(member) == [value |-> member]

\* EventType(v), MessageSubtype(v): the member of the enum with that value
member_of(enum, v) == CHOOSE member \in enum : value(member) = v

\* Event.to_dict(): the subtype entry is None when the event has none
to_dict(event) ==
    [event_id |-> event.event_id,
     event_type |-> value(event.event_type),
     sender_id |-> event.sender_id,
     timestamp |-> event.timestamp,
     payload |-> event.payload,
     subtype |-> IF event.subtype # None
                 THEN Some(value(event.subtype[1])) ELSE None,
     delay_ms |-> event.delay_ms]

\* from_dict leaving delay_ms at the default of the constructor
from_dict_default_delay(data) ==
    Event_subtyped(member_of(EventType, data.event_type), data.sender_id,
                   data.payload, 0, data.event_id, data.timestamp,
                   IF data.subtype # None
                   THEN Some(member_of(MessageSubtype, data.subtype[1]))
                   ELSE None)

\* Event.from_dict(data), every key being present in data
from_dict(data) ==
    Event_subtyped(member_of(EventType, data.event_type), data.sender_id,
                   data.payload, data.delay_ms, data.event_id, data.timestamp,
                   IF data.subtype # None
                   THEN Some(member_of(MessageSubtype, data.subtype[1]))
                   ELSE None)

\* no event has been serialized
CodecInit == serialized = None

\* event.to_dict() and Event.from_dict() of the result
round_trip(event) ==
    serialized' = Some([event |-> event, data |-> to_dict(event),
                        back |-> from_dict(to_dict(event))])

\* the events serialized: every type, with and without subtype, delayed or
\* not, with the payload shapes the factories of Event produce
PayloadInputs ==
    {<<>>, [text |-> "hi"], [offer |-> <<>>], [reason |-> "timeout"],
     [elapsed_seconds |-> 1, remaining_seconds |-> 2]}

RoundTripInputs ==
    {Event_subtyped(t, s, p, d, 1, ts, sub) :
        t \in EventType, s \in {HUMAN_ID, SYSTEM_ID}, p \in PayloadInputs,
        d \in {0, 2}, ts \in {0, 1}, sub \in {None, Some("generic"), Some("offer_accept")}}

(***************************************************************************)
(* gui/app.py, agent_api/context.py: the AgentContext handed to the agent. *)
(* Its current_offer and history members are references: history is the    *)
(* NegotiationHistory object of the session, which the session never       *)
(* replaces; current_offer is the Offer object that was _current_offer     *)
(* when the context was built, and the session's own until _handle_offer   *)
(* assigns a new one.                                                      *)
(***************************************************************************)
\* most uses the decision layer makes of the members of one context
MaxCtxUses == 1

\* no context has been built; the initial offer of the session is referred
\* to by nothing else
ContextInit ==
    /\ ctx = None
    /\ offer_alias = "none"

\* _build_agent_context(): the members that are references, the values
\* copied, and what the members showed when the context was built
build_agent_context ==
    /\ ctx = None
    /\ ctx' = Some([offer_is_sessions |-> TRUE,
                    offer |-> current_offer,
                    human_has_accepted |-> acceptance.human_accepted,
                    agent_has_accepted |-> acceptance.agent_accepted,
                    offer_when_built |-> current_offer,
                    history_when_built |-> history,
                    uses |-> 0])
    /\ UNCHANGED offer_alias

\* ctx.current_offer and ctx.history as read through the context
ctx_current_offer ==
    IF ctx[1].offer_is_sessions THEN current_offer ELSE ctx[1].offer

ctx_history == history

\* NegotiationSession.can_formally_accept()
can_formally_accept == is_active /\ Offer_is_complete(current_offer)

\* AgentContext.can_formally_accept() of a context whose current_offer is
\* the given offer: every issue of the game has an allocation in it, be
\* there units in the middle or not
AgentContext_can_formally_accept(issue_names, offer) ==
    \A name \in issue_names : Offer_getitem(offer, name) # None

\* _handle_offer(event) assigns a new Offer to _current_offer
replaces_offer(event) ==
    /\ ~Ignored(event)
    /\ event.event_type = SEND_OFFER
    /\ Truthy(Event_get_offer(event))
    /\ validate_offer(Offer_from_dict(Event_get_offer(event)))

\* apply_event(event), and what it does to the objects a context refers to:
\* after the assignment in _handle_offer the context keeps the old Offer,
\* and the new one is _last_human_offer or _last_agent_offer too
ctx_apply_event(event) ==
    /\ apply_event(event)
    /\ IF replaces_offer(event)
       THEN /\ offer_alias' = event.sender_id
            /\ ctx' = IF ctx # None /\ ctx[1].offer_is_sessions
                      THEN Some([ctx[1] EXCEPT !.offer_is_sessions = FALSE,
                                               !.offer = current_offer])
                      ELSE ctx
       ELSE UNCHANGED <<ctx, offer_alias>>

\* the decision layer executes ctx.current_offer[issue_name] = allocation
\* (Offer.__setitem__) on the context it was handed
ctx_offer_setitem(issue_name, allocation) ==
    /\ ctx # None
    /\ ctx[1].uses < MaxCtxUses
    /\ IF ctx[1].offer_is_sessions
       THEN /\ current_offer' =
                    [current_offer EXCEPT ![issue_name] = allocation]
            /\ last_human_offer' =
                    IF offer_alias = HUMAN_ID THEN current_offer'
                    ELSE last_human_offer
            /\ last_agent_offer' =
                    IF offer_alias = AGENT_ID THEN current_offer'
                    ELSE last_agent_offer
            /\ ctx' = Some([ctx[1] EXCEPT !.uses = @ + 1])
       ELSE /\ ctx' = Some([ctx[1] EXCEPT
                                !.uses = @ + 1,
                                !.offer = [@ EXCEPT ![issue_name] = allocation]])
            /\ UNCHANGED <<current_offer, last_human_offer, last_agent_offer>>
    /\ UNCHANGED <<state, acceptance, history, start_time, end_time,
                   last_call, offer_alias>>

\* the decision layer executes ctx.history.add(event)
\* (NegotiationHistory.add) on the context it was handed
ctx_history_add(event) ==
    /\ ctx # None
    /\ ctx[1].uses < MaxCtxUses
    /\ Len(history) < MaxHistory
    /\ history' = Append(history, event)
    /\ ctx' = Some([ctx[1] EXCEPT !.uses = @ + 1])
    /\ UNCHANGED <<state, current_offer, acceptance, start_time, end_time,
                   last_human_offer, last_agent_offer, last_call, offer_alias>>

(***************************************************************************)
(* gui/app.py, agent_api/actions.py: the actions an agent returns and what *)
(* the app does with them.  root.after(ms, callback) is a pending timer;   *)
(* the main loop runs the callback once the time has come.                 *)
(***************************************************************************)
\* most actions the agent returns altogether
MaxReturned == 3

\* an action of agent_api/actions.py: its class, its delay_ms (ShowTyping
\* has no such attribute) and, for a Schedule, the action it wraps, for a
\* SendOffer the offer it carries, for a SendMessage its subtype
AgentAction(kind, delay_ms, inner) ==
    [kind |-> kind, delay_ms |-> delay_ms, inner |-> inner]

\* no action has been returned yet
AppInit ==
    /\ timers = <<>>
    /\ app_executed = <<>>

\* what the branch of _execute_single_action for the action's class
\* publishes on the bus: nothing for ShowTyping (the chat panel shows the
\* indicator), nothing for the classes it has no branch for
published_by(action, event_id) ==
    IF action.kind = "SendMessage"
    THEN Some(Event(SEND_MESSAGE, AGENT_ID, [text |-> "hi"], 0, event_id, now))
    ELSE IF action.kind = "SendOffer"
    THEN Some(Event_send_offer(AGENT_ID,
                               IF action.inner = None THEN FullClaim
                               ELSE Offer_to_dict(action.inner[1]),
                               event_id, now))
    ELSE IF action.kind = "SendExpression"
    THEN Some(Event(SEND_EXPRESSION, AGENT_ID, [expression |-> "happy"], 0,
                    event_id, now))
    ELSE IF action.kind = "FormalAccept"
    THEN Some(Event_formal_accept(AGENT_ID, event_id, now))
    ELSE None

\* _execute_single_action(action): the log gets the action, the event
\* published for it if any, and for which returned action, returned when
\* and with which delay, it was called
execute_single_action(log, action, returned, returned_at) ==
    Append(log, [action |-> action, at |-> now,
                 published |-> published_by(action, Len(log)),
                 returned |-> returned, returned_at |-> returned_at])

\* _execute_actions(actions) from the k-th action on: a Schedule and an
\* action with a delay_ms above 0 go to root.after, any other is executed
\* at once
RECURSIVE execute_from(_, _, _, _)
execute_from(actions_, k, pending, log) ==
    IF k > Len(actions_)
    THEN [timers |-> pending, app_executed |-> log]
    ELSE LET action == actions_[k]
         IN  IF action.kind = "Schedule"
             THEN execute_from(actions_, k + 1,
                    Append(pending, [due |-> now + action.delay_ms,
                                     action |-> action.inner[1],
                                     returned |-> action,
                                     returned_at |-> now]),
                    log)
             ELSE IF action.kind # "ShowTyping" /\ action.delay_ms > 0
             THEN execute_from(actions_, k + 1,
                    Append(pending, [due |-> now + action.delay_ms,
                                     action |-> action,
                                     returned |-> action,
                                     returned_at |-> now]),
                    log)
             ELSE execute_from(actions_, k + 1, pending,
                    execute_single_action(log, action, action, now))

\* NegotiationApp._execute_actions(actions), while no more than limit
\* actions have been returned altogether
execute_actions_upto(actions_, limit) ==
    LET done == execute_from(actions_, 1, timers, app_executed)
    IN  /\ Len(timers) + Len(app_executed) + Len(actions_) <= limit
        /\ timers' = done.timers
        /\ app_executed' = done.app_executed

\* NegotiationApp._execute_actions(actions)
execute_actions(actions_) == execute_actions_upto(actions_, MaxReturned)

\* the main loop runs the callback of the timer that is due first, of two
\* due at the same time the one given to root.after first
timer_fires ==
    \E k \in 1..Len(timers) :
        /\ timers[k].due <= now
        /\ \A j \in 1..Len(timers) :
              \/ timers[j].due > timers[k].due
              \/ timers[j].due = timers[k].due /\ j >= k
        /\ app_executed' = execute_single_action(app_executed, timers[k].action,
                                timers[k].returned, timers[k].returned_at)
        /\ timers' = SubSeq(timers, 1, k - 1) \o SubSeq(timers, k + 1, Len(timers))

\* the actions agents return: each class with and without a delay, and
\* Schedule around an action, a delayed action and another Schedule
PlainActions ==
    {AgentAction(kind, d, None) :
        kind \in {"SendMessage", "SendOffer", "SendExpression", "FormalAccept",
                  "FormalReject"},
        d \in {0, 1}}
    \cup {AgentAction("ShowTyping", 0, None)}

AgentActions ==
    PlainActions
    \cup {AgentAction("Schedule", 1, Some(a)) :
            a \in {AgentAction("SendMessage", 0, None),
                   AgentAction("FormalReject", 0, None),
                   AgentAction("ShowTyping", 0, None)}}

ActionLists ==
    {<<a>> : a \in AgentActions}
    \cup {<<AgentAction("ShowTyping", 0, None), a>> : a \in AgentActions}

(***************************************************************************)
(* agents/negochat/negochat_core.py: the NegoChat algorithm.  A game is    *)
(* its list of issues (name, quantity) with the value maps of the agent    *)
(* and of the opponent; values and the acceptance threshold are whole      *)
(* numbers, the threshold in tenths.                                       *)
(***************************************************************************)
\* StackStrategy
AGGRESSIVE == "aggressive"

BALANCED == "balanced"

COOPERATIVE == "cooperative"

\* most offers a NegoChatCore makes (_offers_made) before it is reset
MaxOffers == 4

\* Issue(name, quantity)
Issue(name, quantity) == [name |-> name, quantity |-> quantity]

\* values.get(name, 0)
values_get(values, name) == IF name \in DOMAIN values THEN values[name] ELSE 0

\* GameSpec.get_issue(name): the first issue of that name, or None
get_issue(game, name) ==
    IF \E k \in 1..Len(game.issues) : game.issues[k].name = name
    THEN game.issues[CHOOSE k \in 1..Len(game.issues) :
                        /\ game.issues[k].name = name
                        /\ \A j \in 1..(k - 1) : game.issues[j].name # name]
    ELSE None

\* list.sort(key=...) and list.sort(key=..., reverse=True): the sort is
\* stable, elements with equal keys keep their order either way; key is a
\* function of the position in the list
sorted_by(list, key, reverse) ==
    LET before(j, k) ==
            \/ IF reverse THEN key[j] > key[k] ELSE key[j] < key[k]
            \/ key[j] = key[k] /\ j < k
        rank(k) == Cardinality({j \in 1..Len(list) : before(j, k)}) + 1
    IN  [i \in 1..Len(list) |-> list[CHOOSE k \in 1..Len(list) : rank(k) = i]]

\* IssueAnalysis.value_difference of the issue of that name
value_difference(game, name) ==
    values_get(game.agent_values, name) - values_get(game.opponent_values, name)

\* _build_stacks sorting every issue with a value difference into stack_a
build_stacks_no_stack_b(game, strategy) ==
    LET names == [k \in 1..Len(game.issues) |-> game.issues[k].name]
    IN  [stack_a |-> SelectSeq(names,
                        LAMBDA n : value_difference(game, n) # 0),
         stack_b |-> <<>>,
         neutral |-> SelectSeq(names,
                        LAMBDA n : value_difference(game, n) = 0)]

\* NegoChatCore._build_stacks(): the issues sorted by falling value
\* difference go to stack_a, stack_b or neutral by its sign; AGGRESSIVE
\* sorts both stacks by falling agent value, COOPERATIVE sorts stack_b by
\* rising opponent value
build_stacks(game, strategy) ==
    LET names == [k \in 1..Len(game.issues) |-> game.issues[k].name]
        analyses == sorted_by(names,
                        [k \in 1..Len(names) |->
                            value_difference(game, names[k])], TRUE)
        stack_a == SelectSeq(analyses,
                        LAMBDA n : value_difference(game, n) > 0)
        stack_b == SelectSeq(analyses,
                        LAMBDA n : value_difference(game, n) < 0)
        neutral == SelectSeq(analyses,
                        LAMBDA n : value_difference(game, n) = 0)
        by_agent(stack) ==
            sorted_by(stack, [k \in 1..Len(stack) |->
                                values_get(game.agent_values, stack[k])], TRUE)
        by_opponent(stack) ==
            sorted_by(stack, [k \in 1..Len(stack) |->
                                values_get(game.opponent_values, stack[k])],
                      FALSE)
    IN  IF strategy = AGGRESSIVE
        THEN [stack_a |-> by_agent(stack_a), stack_b |-> by_agent(stack_b),
              neutral |-> neutral]
        ELSE IF strategy = COOPERATIVE
        THEN [stack_a |-> stack_a, stack_b |-> by_opponent(stack_b),
              neutral |-> neutral]
        ELSE [stack_a |-> stack_a, stack_b |-> stack_b, neutral |-> neutral]

\* the elements of a list
in_list(list) == {list[k] : k \in 1..Len(list)}

Allocation_all_to_agent(quantity) == Allocation(quantity, 0, 0)

Allocation_all_to_human(quantity) == Allocation(0, 0, quantity)

\* split_even giving the remainder to the agent
Allocation_split_even_keep_rest(quantity) ==
    LET each == quantity \div 2
    IN  Allocation(quantity - each, 0, each)

\* Allocation.split_even(quantity): the remainder goes to the middle
Allocation_split_even(quantity) ==
    LET each == quantity \div 2
        remainder == quantity - (each * 2)
    IN  Allocation(each, remainder, each)

\* the Offer built by get_opening_offer(): the entry of a name is that of
\* the last issue of that name
opening_offer(c) ==
    [name \in {c.game.issues[k].name : k \in 1..Len(c.game.issues)} |->
        LET last == CHOOSE k \in 1..Len(c.game.issues) :
                        /\ c.game.issues[k].name = name
                        /\ \A j \in (k + 1)..Len(c.game.issues) :
                                c.game.issues[j].name # name
            quantity == c.game.issues[last].quantity
        IN  IF name \in in_list(c.stacks.stack_a)
            THEN Allocation_all_to_agent(quantity)
            ELSE IF name \in in_list(c.stacks.stack_b)
            THEN IF c.strategy = COOPERATIVE
                 THEN Allocation_all_to_human(quantity)
                 ELSE Allocation_split_even(quantity)
            ELSE Allocation_split_even(quantity)]

\* GameSpec.validate_offer(offer) of the game of a NegoChatCore
validate_offer_of(game, offer) ==
    \A k \in 1..Len(game.issues) :
        LET alloc == Offer_getitem(offer, game.issues[k].name)
        IN  alloc = None \/ Allocation_total(alloc) = game.issues[k].quantity

\* no NegoChatCore has been constructed
ChatInit ==
    /\ core = None
    /\ core_last_call = [op |-> "none", arg |-> None, result |-> None,
                         before |-> None]

\* the members NegoChatCore.__init__ sets
new_core(game, strategy, min_acceptable_utility) ==
    [game |-> game, strategy |-> strategy,
     min_acceptable_utility |-> min_acceptable_utility,
     stacks |-> build_stacks(game, strategy),
     current_proposal |-> None,
     last_opponent_offer |-> None,
     concession_count |-> 0,
     offers_made |-> 0]

\* NegoChatCore(game, agent_utility, opponent_utility, strategy,
\* min_acceptable_utility)
NegoChatCore(game, strategy, min_acceptable_utility) ==
    /\ core' = Some(new_core(game, strategy, min_acceptable_utility))
    /\ core_last_call' = [op |-> "init", arg |-> None, result |-> None,
                          before |-> None]

\* NegoChatCore.reset()
reset ==
    /\ core # None
    /\ core' = Some([core[1] EXCEPT
                        !.stacks = build_stacks(core[1].game, core[1].strategy),
                        !.current_proposal = None,
                        !.last_opponent_offer = None,
                        !.concession_count = 0,
                        !.offers_made = 0])
    /\ core_last_call' = [op |-> "reset", arg |-> None, result |-> None,
                          before |-> core[1].current_proposal]

\* the NegoChatCore after get_opening_offer()
after_opening_offer(c) ==
    [c EXCEPT !.current_proposal = Some(opening_offer(c)),
              !.offers_made = @ + 1]

\* NegoChatCore.get_opening_offer()
get_opening_offer ==
    /\ core # None
    /\ core[1].offers_made < MaxOffers
    /\ core' = Some(after_opening_offer(core[1]))
    /\ core_last_call' = [op |-> "get_opening_offer", arg |-> None,
                          result |-> Some(opening_offer(core[1])),
                          before |-> core[1].current_proposal]

\* the position of the first element of a list for which test holds, 0 when
\* there is none: the element a "for ... if ...: break" loop stops at
first_where(list, test(_)) ==
    IF \E k \in 1..Len(list) : test(list[k])
    THEN CHOOSE k \in 1..Len(list) :
            test(list[k]) /\ \A j \in 1..(k - 1) : ~test(list[j])
    ELSE 0

\* reversed(list)
reversed(list) == [k \in 1..Len(list) |-> list[Len(list) + 1 - k]]

\* a unit leaving the agent's side for the middle
unit_from_agent_to_middle(alloc) ==
    Allocation(alloc.agent - 1, alloc.middle + 1, alloc.human)

\* one unit of an allocation goes to the human, off the agent's side or off
\* the middle
unit_from_agent(alloc) == Allocation(alloc.agent - 1, alloc.middle, alloc.human + 1)

unit_from_middle(alloc) == Allocation(alloc.agent, alloc.middle - 1, alloc.human + 1)

\* the loops of _make_concession run with stack_a before stack_b
concession_stack_a_first(c, offer) ==
    LET has_agent(name) ==
            Offer_getitem(offer, name) # None /\ offer[name].agent > 0
        a == first_where(c.stacks.stack_a, has_agent)
        b == first_where(c.stacks.stack_b, has_agent)
    IN  IF a > 0
        THEN Some([offer EXCEPT ![c.stacks.stack_a[a]] = unit_from_agent(@)])
        ELSE IF b > 0
        THEN Some([offer EXCEPT ![c.stacks.stack_b[b]] = unit_from_agent(@)])
        ELSE None

\* the three loops of _make_concession over a copy of the current
\* proposal: the first stack_b issue with a unit on the agent's side or in
\* the middle gives one (the agent's first); else the first neutral issue
\* with a unit on the agent's side; else the last stack_a issue with one;
\* None when no loop changed the offer
concession(c, offer) ==
    LET has_agent(name) ==
            Offer_getitem(offer, name) # None /\ offer[name].agent > 0
        has_unit(name) ==
            /\ Offer_getitem(offer, name) # None
            /\ (offer[name].agent > 0 \/ offer[name].middle > 0)
        b == first_where(c.stacks.stack_b, has_unit)
        n == first_where(c.stacks.neutral, has_agent)
        a == first_where(reversed(c.stacks.stack_a), has_agent)
    IN  IF b > 0
        THEN LET name == c.stacks.stack_b[b]
             IN  Some([offer EXCEPT ![name] =
                        IF @.agent > 0 THEN unit_from_agent(@)
                        ELSE unit_from_middle(@)])
        ELSE IF n > 0
        THEN Some([offer EXCEPT ![c.stacks.neutral[n]] = unit_from_agent(@)])
        ELSE IF a > 0
        THEN Some([offer EXCEPT ![reversed(c.stacks.stack_a)[a]] =
                        unit_from_agent(@)])
        ELSE None

\* what _make_concession() returns: the opening offer when nothing has been
\* proposed yet; else the concession, or None
concession_made(c) ==
    IF c.current_proposal = None
    THEN Some(opening_offer(c))
    ELSE concession(c, c.current_proposal[1])

\* the NegoChatCore after _make_concession(): an offer made becomes the
\* current proposal
after_make_concession(c) ==
    IF concession_made(c) = None THEN c
    ELSE [c EXCEPT
            !.current_proposal = concession_made(c),
            !.concession_count =
                IF c.current_proposal = None THEN @ ELSE @ + 1,
            !.offers_made = @ + 1]

\* NegoChatCore._make_concession()
make_concession_below(limit) ==
    /\ core # None
    /\ core[1].offers_made < limit
    /\ LET c == core[1]
       IN  /\ core' = Some(after_make_concession(c))
           /\ core_last_call' = [op |-> "make_concession", arg |-> None,
                                 result |-> concession_made(c),
                                 before |-> c.current_proposal]

\* _make_concession() while fewer than MaxOffers offers have been made
make_concession == make_concession_below(MaxOffers)

\* the sum of f over a finite set
RECURSIVE sum_over(_, _)
sum_over(set, f) ==
    IF set = {} THEN 0
    ELSE LET x == CHOOSE x \in set : TRUE
         IN  f[x] + sum_over(set \ {x}, f)

\* UtilityFunction.calculate(offer) of the agent: over the entries of the
\* offer that are not None, the agent's units times values.get(name, 0.0)
calculate(values, offer) ==
    sum_over(DOMAIN offer,
             [name \in DOMAIN offer |->
                IF offer[name] = None THEN 0
                ELSE offer[name].agent * values_get(values, name)])

\* UtilityFunction.get_max_possible(issues)
get_max_possible(values, issues) ==
    sum_over(1..Len(issues),
             [k \in 1..Len(issues) |->
                issues[k].quantity * values_get(values, issues[k].name)])

\* utility_percent >= num / den, where utility_percent is utility /
\* max_utility when max_utility > 0 and 0 otherwise
percent_at_least(utility, max_utility, num, den) ==
    IF max_utility > 0 THEN utility * den >= num * max_utility ELSE 0 >= num

\* NegoChatCore.evaluate_offer(offer, ctx): min_acceptable_utility is in
\* tenths, so 0.8 times it is 8 * min_acceptable_utility hundredths.  No
\* share of the games below falls on a bar, where the rounding of the
\* floating-point product would decide.
evaluate_offer(c, offer) ==
    LET utility == calculate(c.game.agent_values, offer)
        max_utility == get_max_possible(c.game.agent_values, c.game.issues)
        acceptable == percent_at_least(utility, max_utility,
                                       c.min_acceptable_utility, 10)
    IN  [acceptable |-> acceptable, utility |-> utility,
         max_utility |-> max_utility,
         recommendation |->
            IF acceptable /\ Offer_is_complete(offer) THEN "accept"
            ELSE IF percent_at_least(utility, max_utility,
                                     8 * c.min_acceptable_utility, 100)
            THEN "counter_mild"
            ELSE "counter_strong"]

\* max_changes in _generate_counter
max_changes == 2

\* the first loop of _generate_counter from the k-th stack_a issue on: a
\* unit the opponent holds of an issue the agent does not hold all of comes
\* back to the agent
RECURSIVE reclaim(_, _, _, _)
reclaim(game, stack, k, done) ==
    IF k > Len(stack) \/ done.changes_made >= max_changes
    THEN done
    ELSE LET name == stack[k]
             issue == get_issue(game, name)
             alloc == Offer_getitem(done.counter, name)
         IN  IF issue = None \/ alloc = None
             THEN reclaim(game, stack, k + 1, done)
             ELSE IF alloc.human > 0 /\ alloc.agent < issue.quantity
             THEN reclaim(game, stack, k + 1,
                    [counter |-> [done.counter EXCEPT ![name] =
                        Allocation(alloc.agent + 1, alloc.middle,
                                   alloc.human - 1)],
                     changes_made |-> done.changes_made + 1])
             ELSE reclaim(game, stack, k + 1, done)

\* the second loop of _generate_counter from the k-th stack_b issue on: a
\* unit the agent holds goes to the opponent
RECURSIVE cede(_, _, _, _)
cede(game, stack, k, done) ==
    IF k > Len(stack) \/ done.changes_made >= max_changes
    THEN done
    ELSE LET name == stack[k]
             issue == get_issue(game, name)
             alloc == Offer_getitem(done.counter, name)
         IN  IF issue = None \/ alloc = None
             THEN cede(game, stack, k + 1, done)
             ELSE IF alloc.agent > 0
             THEN cede(game, stack, k + 1,
                    [counter |-> [done.counter EXCEPT ![name] =
                        unit_from_agent(alloc)],
                     changes_made |-> done.changes_made + 1])
             ELSE cede(game, stack, k + 1, done)

\* _generate_counter with no cap on the changes of the second loop
counter_for_uncapped(c, opponent_offer) ==
    LET reclaimed == reclaim(c.game, c.stacks.stack_a, 1,
                        [counter |-> opponent_offer, changes_made |-> 0])
        ceded == cede(c.game, c.stacks.stack_b, 1,
                        [counter |-> reclaimed.counter, changes_made |-> 0])
    IN  IF reclaimed.changes_made + ceded.changes_made > 0
        THEN Some(ceded.counter) ELSE None

\* NegoChatCore._generate_counter(opponent_offer, evaluation): the counter,
\* or None when nothing was changed
counter_for(c, opponent_offer) ==
    LET reclaimed == reclaim(c.game, c.stacks.stack_a, 1,
                        [counter |-> opponent_offer, changes_made |-> 0])
        ceded == cede(c.game, c.stacks.stack_b, 1, reclaimed)
    IN  IF ceded.changes_made > 0 THEN Some(ceded.counter) ELSE None

\* handle_offer rejecting whenever no counter could be generated
outcome_reject_without_counter(c, offer) ==
    LET evaluation == evaluate_offer(c, offer)
        counter == counter_for(c, offer)
    IN  IF evaluation.recommendation = "accept"
        THEN <<"accept", None>>
        ELSE IF counter = None THEN <<"reject", None>>
        ELSE <<"counter", counter>>

\* what NegoChatCore.handle_offer(offer, ctx) returns: 0.9 times the
\* threshold is 9 * min_acceptable_utility hundredths
outcome(c, offer) ==
    LET evaluation == evaluate_offer(c, offer)
        counter == counter_for(c, offer)
    IN  IF evaluation.recommendation = "accept"
        THEN <<"accept", None>>
        ELSE IF counter = None
        THEN IF percent_at_least(evaluation.utility, evaluation.max_utility,
                                 9 * c.min_acceptable_utility, 100)
             THEN <<"accept", None>>
             ELSE <<"reject", None>>
        ELSE <<"counter", counter>>

\* NegoChatCore.evaluate_offer(offer, ctx), called on its own
core_evaluate_offer(offer) ==
    /\ core # None
    /\ core_last_call' = [op |-> "evaluate_offer", arg |-> Some(offer),
                          result |-> Some(evaluate_offer(core[1], offer)),
                          before |-> core[1].current_proposal]
    /\ UNCHANGED core

\* the NegoChatCore after handle_offer(offer, ctx): the offer is
\* remembered; a counter becomes the current proposal
after_handle_offer(c, offer) ==
    LET returned == outcome(c, offer)
    IN  [c EXCEPT
            !.last_opponent_offer = Some(offer),
            !.current_proposal =
                IF returned[1] = "counter" THEN returned[2] ELSE @,
            !.offers_made =
                IF returned[1] = "counter" THEN @ + 1 ELSE @]

\* NegoChatCore.handle_offer(offer, ctx)
core_handle_offer(offer) ==
    /\ core # None
    /\ core[1].offers_made < MaxOffers
    /\ LET c == core[1]
           returned == outcome(c, offer)
       IN  /\ core' = Some(after_handle_offer(c, offer))
           /\ core_last_call' = [op |-> "handle_offer", arg |-> Some(offer),
                                 result |-> Some(returned),
                                 before |-> c.current_proposal]

\* NegoChatCore._generate_counter(opponent_offer, evaluation), called on
\* its own: a counter becomes the current proposal
generate_counter(opponent_offer) ==
    /\ core # None
    /\ core[1].offers_made < MaxOffers
    /\ LET c == core[1]
           counter == counter_for(c, opponent_offer)
       IN  /\ core' = IF counter = None THEN core
                      ELSE Some([c EXCEPT !.current_proposal = counter,
                                          !.offers_made = @ + 1])
           /\ core_last_call' = [op |-> "generate_counter",
                                 arg |-> Some(opponent_offer),
                                 result |-> counter,
                                 before |-> c.current_proposal]

\* response_delay_ms of NegoChatAgent, in time units (one unit is 100 ms)
response_delay_ms == 10

\* SendMessage(text, subtype=subtype, delay_ms=delay_ms)
SendMessage(subtype, delay_ms) ==
    AgentAction("SendMessage", delay_ms, Some(subtype))

\* the actions NegoChatAgent.on_formal_accept(ctx, event) returns when the
\* context's current offer is the given one.  get_agent_utility_percent()
\* is the share times 100 and is compared with min_acceptable_utility as
\* it stands: utility / max * 100 >= tenths / 10.
on_formal_accept_actions(c, offer) ==
    LET names == {c.game.issues[k].name : k \in 1..Len(c.game.issues)}
        utility == calculate(c.game.agent_values, offer)
        max_utility == get_max_possible(c.game.agent_values, c.game.issues)
    IN  IF AgentContext_can_formally_accept(names, offer)
        THEN IF percent_at_least(utility, max_utility,
                                 c.min_acceptable_utility, 1000)
             THEN <<AgentAction("SendExpression", 0, None),
                    SendMessage("offer_accept", response_delay_ms),
                    AgentAction("FormalAccept", 5, None)>>
             ELSE <<SendMessage("offer_reject", response_delay_ms)>>
        ELSE <<>>

\* NegoChatAgent.on_formal_accept(ctx, event), the human having formally
\* accepted the given current offer
on_formal_accept(offer) ==
    /\ core # None
    /\ core_last_call' = [op |-> "on_formal_accept", arg |-> Some(offer),
                          result |-> Some(on_formal_accept_actions(core[1],
                                                                   offer)),
                          before |-> core[1].current_proposal]
    /\ UNCHANGED core

(***************************************************************************)
(* The program at run time: threads that hand events to the session, and   *)
(* the window whose handlers publish the human's events, route them to the *)
(* agent and publish what the agent's actions stand for.                   *)
(***************************************************************************)
\* the threads that publish: the UI thread and the scheduler's
Threads == {"ui", "scheduler"}

\* no thread is inside apply_event, nothing has been published
RunInit ==
    /\ racers = [th \in Threads |-> [pc |-> "idle", event |-> None]]
    /\ inbox = <<>>
    /\ agreed = {}
    /\ human_calls = 0

\* longest history while two threads apply events
RaceHistory == MaxHistory + 1

\* a thread calls apply_event(event), through EventBus._dispatch and the
\* app's handler, and evaluates the condition of the early return: nothing
\* is locked, so another thread may run before this one goes on
race_enter(th, event) ==
    /\ racers[th].pc = "idle"
    /\ IF Ignored(event)
       THEN /\ last_call' = [op |-> "apply_event", outcome |-> "ignored",
                             event_type |-> event.event_type]
            /\ UNCHANGED racers
       ELSE /\ racers' = [racers EXCEPT ![th] =
                            [pc |-> "passed", event |-> Some(event)]]
            /\ UNCHANGED last_call
    /\ UNCHANGED <<state, current_offer, acceptance, history, start_time,
                   end_time, last_human_offer, last_agent_offer>>

\* the thread goes on past the early return: history and handler
race_apply(th) ==
    /\ racers[th].pc = "passed"
    /\ record_and_handle(racers[th].event[1], RaceHistory)
    /\ racers' = [racers EXCEPT ![th] = [pc |-> "idle", event |-> None]]

\* most moments (of 100 ms) the window is followed for
MaxPlayTime == 6

\* most events the human publishes through the window
MaxHuman == 3

\* actions returned and events recorded while the window is followed: four
\* actions at most for the start and for each event of the human
PlayReturned == 4 * (MaxHuman + 1)

PlayHistory == 2 + PlayReturned + MaxHuman

\* the game of the window: the issues of the session, valued by the agent
\* and by the human
PlayGame ==
    [issues |-> [k \in 1..Len(Issues) |-> Issue(Issues[k], Quantity[Issues[k]])],
     agent_values |-> [a |-> 3, b |-> 1],
     opponent_values |-> [a |-> 1, b |-> 3]]

\* what NegoChatAgent.on_game_start(ctx, event) returns, and the
\* NegoChatCore it leaves: a new one that has made its opening offer
on_game_start_reply(strategy, min_acceptable_utility) ==
    LET c == new_core(PlayGame, strategy, min_acceptable_utility)
    IN  [core |-> after_opening_offer(c),
         actions |-> <<AgentAction("SendExpression", 0, None),
                       SendMessage("greeting", 5),
                       SendMessage("offer_propose", response_delay_ms),
                       AgentAction("SendOffer", 3, Some(opening_offer(c)))>>]

\* what NegoChatAgent.on_send_offer(ctx, event) returns for the offer of
\* the event, and the NegoChatCore it leaves.  An Offer is always truthy.
\* utility_pct is on the scale 0..100, utility_percent of the evaluation
\* on the scale 0..1.
on_send_offer_reply(c, offer) ==
    LET returned == outcome(c, offer)
        handled == after_handle_offer(c, offer)
        evaluation == evaluate_offer(c, offer)
        should_be_angry ==
            ~percent_at_least(evaluation.utility, evaluation.max_utility,
                              20, 100)
        is_strong_reject ==
            ~percent_at_least(evaluation.utility, evaluation.max_utility,
                              c.min_acceptable_utility, 20)
        expression == AgentAction("SendExpression", 0, None)
    IN  IF returned[1] = "accept"
        THEN [core |-> handled,
              actions |->
                IF Offer_is_complete(offer)
                THEN <<expression,
                       SendMessage("offer_accept", response_delay_ms),
                       AgentAction("FormalAccept", 5, None)>>
                ELSE <<SendMessage("offer_accept", response_delay_ms)>>]
        ELSE IF returned[1] = "counter"
        THEN [core |-> handled,
              actions |->
                (IF should_be_angry \/ is_strong_reject
                 THEN <<expression>> ELSE <<>>)
                \o <<SendMessage("offer_reject", response_delay_ms),
                      SendMessage("offer_propose", response_delay_ms),
                      AgentAction("SendOffer", 3, returned[2])>>]
        ELSE [core |-> after_make_concession(handled),
              actions |->
                <<expression, SendMessage("offer_reject", response_delay_ms)>>
                \o (IF concession_made(handled) = None THEN <<>>
                     ELSE <<SendMessage("offer_propose", response_delay_ms * 2),
                            AgentAction("SendOffer", 3,
                                        concession_made(handled))>>)]

\* agent.handle_event(ctx, event) for an event of the human, the context
\* showing the session after the event was applied
handle_event_reply(c, event, offer_shown) ==
    IF event.event_type = SEND_OFFER /\ Truthy(Event_get_offer(event))
    THEN on_send_offer_reply(c, Offer_from_dict(Event_get_offer(event)))
    ELSE IF event.event_type = FORMAL_ACCEPT
    THEN [core |-> c, actions |-> on_formal_accept_actions(c, offer_shown)]
    ELSE [core |-> c, actions |-> <<>>]

\* the events the bus was given while a log of executed actions grew
RECURSIVE published_since(_, _)
published_since(log, k) ==
    IF k >= Len(log) THEN <<>>
    ELSE (IF log[k + 1].published = None THEN <<>>
          ELSE <<log[k + 1].published[1]>>)
         \o published_since(log, k + 1)

\* what no handler of the window touches
play_frame ==
    <<subscriptions, delayed_queue, dispatched, registered, bus_calls,
      bus_last_call, delay_vars, sched_vars, game_vars, codec_vars, ctx_vars,
      racers>>

\* NegotiationApp.start(): the session is started, the event it returns is
\* published, and the actions of the agent's on_game_start are executed
app_start ==
    /\ state = NOT_STARTED
    /\ start
    /\ LET reply == on_game_start_reply(BALANCED, 4)
       IN  /\ core' = Some(reply.core)
           /\ core_last_call' = [op |-> "on_game_start", arg |-> None,
                                 result |-> Some(reply.actions),
                                 before |-> None]
           /\ execute_actions_upto(reply.actions, PlayReturned)
    /\ inbox' = <<history'[Len(history')]>>
                    \o published_since(app_executed', Len(app_executed))
    /\ UNCHANGED <<agreed, human_calls, now, play_frame>>

\* _on_send_offer(offer): an offer the game finds valid is published
human_sends_offer(offer) ==
    /\ state # NOT_STARTED
    /\ inbox = <<>>
    /\ human_calls < MaxHuman
    /\ validate_offer(offer)
    /\ human_calls' = human_calls + 1
    /\ inbox' = <<Event_send_offer(HUMAN_ID, Offer_to_dict(offer),
                                   human_calls, now)>>
    /\ UNCHANGED <<session_vars, app_vars, chat_vars, agreed, now, play_frame>>

\* _on_formal_accept(): published if the session can formally accept
human_formal_accept ==
    /\ state # NOT_STARTED
    /\ inbox = <<>>
    /\ human_calls < MaxHuman
    /\ can_formally_accept
    /\ human_calls' = human_calls + 1
    /\ inbox' = <<Event_formal_accept(HUMAN_ID, human_calls, now)>>
    /\ UNCHANGED <<session_vars, app_vars, chat_vars, agreed, now, play_frame>>

\* _on_event(event) for the event published first of those not yet
\* handled: the session applies it; one of the human is routed to the
\* agent, whose actions are executed; what they publish at once is handled
\* next.  The offers the agent returned a FormalAccept for are kept.
on_event ==
    /\ inbox # <<>>
    /\ LET event == Head(inbox)
       IN  /\ apply_event_upto(event, PlayHistory)
           /\ IF event.sender_id = HUMAN_ID /\ core # None
              THEN LET reply == handle_event_reply(core[1], event,
                                                   current_offer')
                       accepts ==
                           \E k \in 1..Len(reply.actions) :
                               reply.actions[k].kind = "FormalAccept"
                       accepted ==
                           IF event.event_type = SEND_OFFER
                           THEN Offer_from_dict(Event_get_offer(event))
                           ELSE current_offer'
                   IN  /\ core' = Some(reply.core)
                       /\ core_last_call' =
                              [op |-> "handle_event", arg |-> Some(event),
                               result |-> Some(reply.actions),
                               before |-> core[1].current_proposal]
                       /\ execute_actions_upto(reply.actions, PlayReturned)
                       /\ agreed' = IF accepts THEN agreed \cup {accepted}
                                    ELSE agreed
              ELSE UNCHANGED <<app_vars, chat_vars, agreed>>
    /\ inbox' = Tail(inbox)
                    \o published_since(app_executed', Len(app_executed))
    /\ UNCHANGED <<human_calls, now, play_frame>>

\* the callback of a timer of root.after runs: what it publishes is handled
\* next
after_callback ==
    /\ inbox = <<>>
    /\ timer_fires
    /\ inbox' = published_since(app_executed', Len(app_executed))
    /\ UNCHANGED <<session_vars, chat_vars, agreed, human_calls, now,
                   play_frame>>

\* 100 ms pass while the main loop has nothing to run
time_passes ==
    /\ state # NOT_STARTED
    /\ inbox = <<>>
    /\ \A k \in 1..Len(timers) : timers[k].due > now
    /\ tick_upto(MaxPlayTime)
    /\ UNCHANGED <<session_vars, delay_vars, sched_vars, rest_vars>>

(***************************************************************************)
(* The calls the rest of the program makes on the bus.                     *)
(***************************************************************************)
SubscriberIds == {"app", "event_logger"}

Handlers == {"on_event", "log_event"}

Filters == {None, Some({TIME})}

\* the sets of subscribers whose handler raises on a dispatched event
FailingInputs == {{}, {"app"}}

\* the events published, each freshly created: zero-delay ones of two types
\* and delayed ones
PublishInputs ==
    {Event(t, SYSTEM_ID, <<>>, 0, bus_calls, now) : t \in {TIME, GAME_START}}
    \cup {Event(SEND_MESSAGE, AGENT_ID, <<>>, d, bus_calls, now) : d \in {1, 2}}

\* the delayed events among them
DelayedInputs == {event \in PublishInputs : event.delay_ms > 0}

\* the calls made on the scheduler: deadlines, delays, actions that return
\* or raise, and the ids they are scheduled under
DeadlineInputs == {None, Some(2)}

DelayInputs == {1, 2}

ActionInputs == {"returns", "raises"}

ActionIds == {"x", "y"}

\* the events the session ingests while a context is held
ContextEventInputs ==
    {Event_send_offer(sender, FullClaim, uuid4, time_time) : sender \in Senders}
    \cup {Event_formal_accept(sender, uuid4, time_time) : sender \in Senders}
    \cup {Event_time_tick(uuid4, time_time)}

\* the games a NegoChatCore is constructed for: the fruit game of the
\* documentation; two issues the agent values more, in different orders by
\* value and by value difference; two and two issues for either side; one
\* issue of equal value; one issue worth nothing to the agent
FruitGame ==
    [issues |-> <<Issue("apples", 4), Issue("oranges", 3), Issue("bananas", 2)>>,
     agent_values |-> [apples |-> 10, oranges |-> 6, bananas |-> 2],
     opponent_values |-> [apples |-> 2, oranges |-> 6, bananas |-> 10]]

ChatGames ==
    {FruitGame,
     [issues |-> <<Issue("x", 1), Issue("y", 2)>>,
      agent_values |-> [x |-> 10, y |-> 5],
      opponent_values |-> [x |-> 9, y |-> 1]],
     [issues |-> <<Issue("p", 2), Issue("q", 2), Issue("r", 2), Issue("s", 1)>>,
      agent_values |-> [p |-> 5, q |-> 4, r |-> 1, s |-> 1],
      opponent_values |-> [p |-> 1, q |-> 1, r |-> 5, s |-> 4]],
     [issues |-> <<Issue("n", 1)>>,
      agent_values |-> [n |-> 3],
      opponent_values |-> [n |-> 3]],
     [issues |-> <<Issue("z", 1)>>,
      agent_values |-> [z |-> 0],
      opponent_values |-> [z |-> 5]]}

Strategies == {AGGRESSIVE, BALANCED, COOPERATIVE}

\* min_acceptable_utility, in tenths
Thresholds == {0, 4}

\* the offers an opponent makes in a game: everything to one side, an even
\* split, everything undecided, and the first issue alone given to the
\* agent
OpponentOffers(game) ==
    LET names == {game.issues[k].name : k \in 1..Len(game.issues)}
        quantity(name) == get_issue(game, name).quantity
    IN  {[name \in names |-> Allocation_all_to_human(quantity(name))],
         [name \in names |-> Allocation_all_to_agent(quantity(name))],
         [name \in names |-> Allocation_split_even(quantity(name))],
         [name \in names |-> Allocation_all_in_middle(quantity(name))],
         [name \in {game.issues[1].name} |->
            Allocation_all_to_agent(quantity(name))]}

(***************************************************************************)
(* Specifications.                                                         *)
(***************************************************************************)
Init ==
    /\ SessionInit /\ BusInit /\ DelayInit /\ SchedInit /\ GameInit
    /\ CodecInit /\ ContextInit /\ AppInit /\ ChatInit /\ RunInit

\* the session, driven through start() and apply_event()
Next ==
    \/ start /\ UNCHANGED <<bus_vars, delay_vars, sched_vars, rest_vars>>
    \/ \E event \in EventInputs :
            apply_event(event)
                    /\ UNCHANGED <<bus_vars, delay_vars, sched_vars, rest_vars>>

Spec == Init /\ [][Next]_vars

\* the bus, driven through subscribe(), unsubscribe() and publish(), all
\* at one reading of the clock
NextBus ==
    \/ \E h \in Handlers, id \in SubscriberIds, f \in Filters :
            subscribe(h, id, f)
                    /\ UNCHANGED <<session_vars, delay_vars, sched_vars, rest_vars>>
    \/ \E id \in SubscriberIds :
            unsubscribe(id)
                    /\ UNCHANGED <<session_vars, delay_vars, sched_vars, rest_vars>>
    \/ \E event \in PublishInputs, failing \in FailingInputs :
            publish(event, failing)
                    /\ UNCHANGED <<session_vars, delay_vars, sched_vars, rest_vars>>

SpecBus == Init /\ [][NextBus]_vars

\* the zero-delay events published while the app and the logger listen: the
\* human's offer and message, and a time tick
RelayInputs ==
    {Event_send_offer(HUMAN_ID, FullClaim, bus_calls, now),
     Event(SEND_MESSAGE, HUMAN_ID, <<>>, 0, bus_calls, now),
     Event(TIME, SYSTEM_ID, <<>>, 0, bus_calls, now)}

\* the agent's immediate reply to an event: a SendExpression has no delay
ImmediateReply ==
    Event(SEND_EXPRESSION, AGENT_ID, [expression |-> "happy"], 0,
          bus_calls + MaxBusCalls + 1, now)

\* the bus with the program's handlers subscribed in any order
NextRelay ==
    \/ \E h \in Handlers, id \in SubscriberIds, f \in Filters :
            subscribe(h, id, f)
                    /\ UNCHANGED <<session_vars, delay_vars, sched_vars, rest_vars>>
    \/ \E id \in SubscriberIds :
            unsubscribe(id)
                    /\ UNCHANGED <<session_vars, delay_vars, sched_vars, rest_vars>>
    \/ \E event \in RelayInputs :
            publish_reacting(event, ImmediateReply)
                    /\ UNCHANGED <<session_vars, delay_vars, sched_vars, rest_vars>>

SpecRelay == Init /\ [][NextRelay]_vars

\* the delay queue driven by one caller: delayed events are published, and
\* the caller polls the queue itself
NextDelay ==
    \/ subscribe("on_event", "app", None)
            /\ UNCHANGED <<session_vars, delay_vars, sched_vars, rest_vars>>
    \/ \E event \in DelayedInputs, failing \in FailingInputs :
            publish(event, failing)
                    /\ UNCHANGED <<session_vars, delay_vars, sched_vars, rest_vars>>
    \/ \E failing \in FailingInputs :
            process_delayed_events(failing)
                /\ UNCHANGED <<session_vars, delay_vars, sched_vars, rest_vars>>
    \/ get_next_delay
            /\ UNCHANGED <<session_vars, delay_vars, sched_vars, rest_vars>>
    \/ tick /\ UNCHANGED <<session_vars, delay_vars, sched_vars, rest_vars>>

SpecDelay == Init /\ [][NextDelay]_vars

\* the delay queue polled by the delay thread and by a caller, while
\* delayed events are published
NextPoll ==
    \/ start_delay_processor
            /\ UNCHANGED <<session_vars, sched_vars, rest_vars>>
    \/ stop_delay_processor /\ UNCHANGED <<session_vars, sched_vars, rest_vars>>
    \/ \E event \in DelayedInputs :
            /\ bus_calls < MaxRaced
            /\ publish(event, {})
            /\ UNCHANGED <<session_vars, delay_vars, sched_vars, rest_vars>>
    \/ loop_next /\ UNCHANGED <<session_vars, sched_vars, rest_vars>>
    \/ \E op \in {"process_delayed_events", "get_next_delay"} :
            call_begin(op) /\ UNCHANGED <<session_vars, sched_vars, rest_vars>>
    \/ \E th \in PollerIds : poll_get(th)
            /\ UNCHANGED <<session_vars, sched_vars, rest_vars>>
    \/ \E th \in PollerIds : poll_got(th, {})
            /\ UNCHANGED <<session_vars, sched_vars, rest_vars>>
    \/ peek_get /\ UNCHANGED <<session_vars, sched_vars, rest_vars>>
    \/ peek_put /\ UNCHANGED <<session_vars, sched_vars, rest_vars>>
    \/ tick /\ UNCHANGED <<session_vars, delay_vars, sched_vars, rest_vars>>

SpecPoll == Init /\ [][NextPoll]_vars

\* two buses fed the same delayed events: this one with the delay
\* processor running and keeping its pace, the second one polled by its
\* caller
NextModes ==
    \/ start_delay_processor
            /\ UNCHANGED <<session_vars, sched_vars, rest_vars>>
    \/ \E event \in DelayedInputs :
            running /\ publish_both(event)
                    /\ UNCHANGED <<session_vars, sched_vars, rest_vars>>
    \/ loop_next /\ UNCHANGED <<session_vars, sched_vars, rest_vars>>
    \/ poll_get("delay_loop")
            /\ UNCHANGED <<session_vars, sched_vars, rest_vars>>
    \/ poll_got("delay_loop", {})
            /\ UNCHANGED <<session_vars, sched_vars, rest_vars>>
    \/ twin_process_delayed_events
            /\ UNCHANGED <<session_vars, sched_vars, rest_vars>>
    \/ LoopKeepsUp /\ tick
            /\ UNCHANGED <<session_vars, delay_vars, sched_vars, rest_vars>>

SpecModes == Init /\ [][NextModes]_vars

\* the scheduler: its loop, and the calls made on it from other threads
NextSched ==
    \/ sched_start
            /\ UNCHANGED <<session_vars, bus_vars, delay_vars, rest_vars>>
    \/ sched_stop /\ UNCHANGED <<session_vars, bus_vars, delay_vars, rest_vars>>
    \/ \E seconds \in DeadlineInputs :
            set_deadline(seconds)
                /\ UNCHANGED <<session_vars, bus_vars, delay_vars, rest_vars>>
    \/ \E d \in DelayInputs, a \in ActionInputs, id \in ActionIds :
            schedule_action(d, a, id)
                /\ UNCHANGED <<session_vars, bus_vars, delay_vars, rest_vars>>
    \/ \E id \in ActionIds :
            cancel_action(id)
                /\ UNCHANGED <<session_vars, bus_vars, delay_vars, rest_vars>>
    \/ loop_turn /\ UNCHANGED <<session_vars, bus_vars, delay_vars, rest_vars>>
    \/ loop_take /\ UNCHANGED <<session_vars, bus_vars, delay_vars, rest_vars>>
    \/ loop_run /\ UNCHANGED <<session_vars, bus_vars, delay_vars, rest_vars>>
    \/ loop_finish
            /\ UNCHANGED <<session_vars, bus_vars, delay_vars, rest_vars>>
    \/ tick /\ UNCHANGED <<session_vars, delay_vars, sched_vars, rest_vars>>

SpecSched == Init /\ [][NextSched]_vars

\* games constructed one after the other
NextGame ==
    \E items \in ItemInputs, agent_values \in ValueMaps,
       human_values \in ValueMaps :
        create(items, agent_values, human_values)
            /\ UNCHANGED <<session_vars, bus_vars, delay_vars, sched_vars,
                           codec_vars, ctx_vars, app_vars, chat_vars, run_vars>>

SpecGame == Init /\ [][NextGame]_vars

\* events serialized and read back one after the other
NextCodec ==
    \E event \in RoundTripInputs :
        round_trip(event)
            /\ UNCHANGED <<session_vars, bus_vars, delay_vars, sched_vars,
                           game_vars, ctx_vars, app_vars, chat_vars, run_vars>>

SpecCodec == Init /\ [][NextCodec]_vars

\* the session, one context built from it, and the decision layer using
\* the members of that context
NextContext ==
    \/ start
            /\ UNCHANGED <<bus_vars, delay_vars, sched_vars, game_vars,
                           codec_vars, ctx_vars, app_vars, chat_vars, run_vars>>
    \/ \E event \in ContextEventInputs :
            ctx_apply_event(event)
                /\ UNCHANGED <<bus_vars, delay_vars, sched_vars, game_vars,
                               codec_vars, app_vars, chat_vars, run_vars>>
    \/ build_agent_context
            /\ UNCHANGED <<session_vars, bus_vars, delay_vars, sched_vars,
                           game_vars, codec_vars, app_vars, chat_vars, run_vars>>
    \/ \E name \in IssueNames :
            ctx_offer_setitem(name, Allocation(0, 0, Quantity[name]))
                /\ UNCHANGED <<bus_vars, delay_vars, sched_vars, game_vars,
                               codec_vars, app_vars, chat_vars, run_vars>>
    \/ ctx_history_add(Event(SEND_MESSAGE, AGENT_ID, <<>>, 0, uuid4,
                             time_time))
            /\ UNCHANGED <<bus_vars, delay_vars, sched_vars, game_vars,
                           codec_vars, app_vars, chat_vars, run_vars>>

SpecContext == Init /\ [][NextContext]_vars

\* the app executing the lists of actions the agent returns
NextApp ==
    \/ \E list \in ActionLists :
            execute_actions(list)
                /\ UNCHANGED <<session_vars, bus_vars, delay_vars, sched_vars,
                               game_vars, codec_vars, ctx_vars, chat_vars, run_vars>>
    \/ timer_fires
            /\ UNCHANGED <<session_vars, bus_vars, delay_vars, sched_vars,
                           game_vars, codec_vars, ctx_vars, chat_vars, run_vars>>
    \/ tick /\ UNCHANGED <<session_vars, delay_vars, sched_vars, rest_vars>>

SpecApp == Init /\ [][NextApp]_vars

\* every variable but those of the NegoChatCore
not_chat_vars ==
    <<session_vars, bus_vars, delay_vars, sched_vars, game_vars, codec_vars,
      ctx_vars, app_vars, run_vars>>

\* one NegoChatCore: constructed, asked for offers, given the opponent's
\* offers, reset
NextChat ==
    \/ \E game \in ChatGames, strategy \in Strategies, t \in Thresholds :
            /\ core = None
            /\ NegoChatCore(game, strategy, t)
            /\ UNCHANGED not_chat_vars
    \/ reset /\ UNCHANGED not_chat_vars
    \/ get_opening_offer /\ UNCHANGED not_chat_vars
    \/ make_concession /\ UNCHANGED not_chat_vars
    \/ \E offer \in IF core = None THEN {} ELSE OpponentOffers(core[1].game) :
            core_evaluate_offer(offer) /\ UNCHANGED not_chat_vars
    \/ \E offer \in IF core = None THEN {} ELSE OpponentOffers(core[1].game) :
            core_handle_offer(offer) /\ UNCHANGED not_chat_vars
    \/ \E offer \in IF core = None THEN {} ELSE OpponentOffers(core[1].game) :
            generate_counter(offer) /\ UNCHANGED not_chat_vars
    \/ \E offer \in IF core = None THEN {} ELSE OpponentOffers(core[1].game) :
            on_formal_accept(offer) /\ UNCHANGED not_chat_vars

SpecChat == Init /\ [][NextChat]_vars

\* the events two threads hand to the session: the human's offer, the
\* accepts of both parties, the end of the game
RaceInputs ==
    {Event_send_offer(HUMAN_ID, FullClaim, uuid4, time_time)}
    \cup {Event_formal_accept(s, uuid4, time_time) : s \in Senders}
    \cup {Event_game_end(r, uuid4, time_time) : r \in {"timeout", "cancelled"}}

\* every variable but those of the session and of the threads in it
not_race_vars ==
    <<bus_vars, delay_vars, sched_vars, game_vars, codec_vars, ctx_vars,
      app_vars, chat_vars, inbox, agreed, human_calls>>

\* the session started, then two threads applying events
NextRace ==
    \/ /\ state = NOT_STARTED
       /\ start
       /\ UNCHANGED <<racers, not_race_vars>>
    \/ \E th \in Threads, event \in RaceInputs :
            race_enter(th, event) /\ UNCHANGED not_race_vars
    \/ \E th \in Threads : race_apply(th) /\ UNCHANGED not_race_vars

SpecRace == Init /\ [][NextRace]_vars

\* the offers the human builds in the window: every issue allocated
PlayOffers ==
    {[name \in IssueNames |-> Allocation_all_to_human(Quantity[name])],
     [name \in IssueNames |-> Allocation_split_even(Quantity[name])],
     [name \in IssueNames |-> Allocation_all_in_middle(Quantity[name])],
     [name \in IssueNames |->
        IF name = Issues[1] THEN Allocation_all_to_agent(Quantity[name])
        ELSE Allocation_all_to_human(Quantity[name])]}

\* the window from start() on: the human's offers and formal accepts, the
\* agent's replies, the timers of root.after
NextPlay ==
    \/ app_start
    \/ \E offer \in PlayOffers : human_sends_offer(offer)
    \/ human_formal_accept
    \/ on_event
    \/ after_callback
    \/ time_passes

SpecPlay == Init /\ [][NextPlay]_vars

\* the units of a game, all issues together
Units(game) ==
    sum_over(1..Len(game.issues),
             [k \in 1..Len(game.issues) |-> game.issues[k].quantity])

\* _make_concession() called again, however many offers have been made: the
\* limit is out of reach unless more concessions are made than the game has
\* units
NextConcession ==
    /\ core # None
    /\ make_concession_below(Units(core[1].game) + 2)
    /\ UNCHANGED not_chat_vars

\* one NegoChatCore asked for its opening offer and then for concession
\* after concession
NextConcede ==
    \/ \E game \in ChatGames, strategy \in Strategies, t \in Thresholds :
            /\ core = None
            /\ NegoChatCore(game, strategy, t)
            /\ UNCHANGED not_chat_vars
    \/ /\ core # None
       /\ core[1].current_proposal = None
       /\ get_opening_offer
       /\ UNCHANGED not_chat_vars
    \/ NextConcession

\* the caller keeps asking as long as asking changes anything
SpecConcede == Init /\ [][NextConcede]_vars /\ WF_vars(NextConcession)

(***************************************************************************)
(* Properties of the session state machine.                                *)
(* A step of start() or apply_event() sets last_call' to that call, and a  *)
(* recorded event is the last element of history'.                         *)
(***************************************************************************)
StepStart == last_call'.op = "start"

StepApply(event_type) ==
    last_call'.op = "apply_event" /\ last_call'.event_type = event_type

StepRecorded(event_type) ==
    StepApply(event_type) /\ last_call'.outcome = "recorded"

AppliedEvent == history'[Len(history')]

\* C1: the state only moves NOT_STARTED -> IN_PROGRESS, by start(), and
\* IN_PROGRESS -> COMPLETED, TIMED_OUT or CANCELLED; start() in any other
\* state than NOT_STARTED raises and leaves the state as it is; a terminal
\* state is never left, whatever is called.
C1_StateTransitions ==
    [][ /\ state' # state =>
            \/ state = NOT_STARTED /\ state' = IN_PROGRESS /\ StepStart
            \/ state = IN_PROGRESS /\ state' \in Terminal
        /\ (StepStart /\ state # NOT_STARTED) =>
            (state' = state /\ last_call'.outcome = "RuntimeError")
        /\ state \in Terminal => state' = state
      ]_vars

\* a terminal session on which start() has just failed
C1_Witness ==
    /\ state \in Terminal
    /\ last_call.op = "start"
    /\ last_call.outcome = "RuntimeError"

\* C2: the flags become both true only in a step that takes the session from
\* IN_PROGRESS to COMPLETED; COMPLETED is never left; a SEND_OFFER applied to
\* a COMPLETED session leaves state, current offer, flags and history alone.
C2_MutualAcceptanceCompletes ==
    [][ /\ ( /\ acceptance'.human_accepted /\ acceptance'.agent_accepted
             /\ ~(acceptance.human_accepted /\ acceptance.agent_accepted) )
            => (state = IN_PROGRESS /\ state' = COMPLETED)
        /\ (acceptance.human_accepted /\ acceptance.agent_accepted)
            => (state = COMPLETED /\ state' = COMPLETED)
        /\ (state = COMPLETED /\ StepApply(SEND_OFFER))
            => UNCHANGED <<state, current_offer, acceptance, history>>
      ]_vars

\* completed by mutual acceptance, and a SEND_OFFER has since been dropped
C2_Witness ==
    /\ state = COMPLETED
    /\ acceptance.human_accepted /\ acceptance.agent_accepted
    /\ last_call = [op |-> "apply_event", outcome |-> "ignored",
                    event_type |-> SEND_OFFER]

\* C8: while the session is not IN_PROGRESS, apply_event leaves state,
\* current offer and flags alone, and records in the history nothing but
\* GAME_START and TIME events.
C8_InactiveIgnores ==
    [][ \A t \in EventType :
          (state # IN_PROGRESS /\ StepApply(t)) =>
            /\ UNCHANGED <<state, current_offer, acceptance>>
            /\ t \notin {GAME_START, TIME} => UNCHANGED history
      ]_vars

\* a finished session that recorded a late TIME tick and then dropped a
\* FORMAL_ACCEPT
C8_Witness ==
    /\ state \in Terminal
    /\ Len(history) >= 2
    /\ history[Len(history)].event_type = TIME
    /\ history[Len(history) - 1].event_type = GAME_END
    /\ last_call = [op |-> "apply_event", outcome |-> "ignored",
                    event_type |-> FORMAL_ACCEPT]

\* the state _complete_negotiation is documented to give for a reason
EndState(payload) ==
    IF "reason" \notin DOMAIN payload THEN COMPLETED
    ELSE IF payload.reason = "timeout" THEN TIMED_OUT
    ELSE IF payload.reason = "cancelled" THEN CANCELLED
    ELSE COMPLETED

\* C9: a GAME_END applied to an IN_PROGRESS session ends it in TIMED_OUT for
\* reason "timeout", CANCELLED for "cancelled", COMPLETED for any other
\* reason and for no reason at all.
C9_GameEndReason ==
    [][ (state = IN_PROGRESS /\ StepApply(GAME_END)) =>
            /\ last_call'.outcome = "recorded"
            /\ state' = EndState(AppliedEvent.payload)
      ]_vars

\* a session ended COMPLETED by a GAME_END without a reason
C9_Witness ==
    /\ state = COMPLETED
    /\ last_call = [op |-> "apply_event", outcome |-> "recorded",
                    event_type |-> GAME_END]
    /\ "reason" \notin DOMAIN history[Len(history)].payload
    /\ ~(acceptance.human_accepted \/ acceptance.agent_accepted)


(***************************************************************************)
(* Offers, validity and formal acceptance.                                 *)
(***************************************************************************)
\* the offer of the specification is complete: every issue of the game has
\* an allocation, and none has undecided units
EveryIssueDecided(offer) ==
    \A name \in IssueNames :
        /\ name \in DOMAIN offer
        /\ offer[name] # None
        /\ offer[name].middle = 0

\* an offer dict is valid: each allocation it holds for an issue of the game
\* sums to the quantity of that issue
ValidDict(d) ==
    \A name \in IssueNames \cap DOMAIN d :
        d[name] # None => d[name][1] + d[name][2] + d[name][3] = Quantity[name]

\* Offer.is_complete() is false: nothing in the mapping, or an entry that is
\* None or has undecided units
Incomplete(offer) ==
    \/ DOMAIN offer = {}
    \/ \E name \in DOMAIN offer : offer[name] = None \/ offer[name].middle > 0

\* every offer dict over the issues with counts up to one above the quantity
Triples(name) ==
    {t \in (0..(Quantity[name] + 1)) \X (0..(Quantity[name] + 1))
            \X (0..(Quantity[name] + 1)) : TRUE}

OfferUniverse ==
    UNION {{d \in [S -> {None} \cup UNION {Triples(n) : n \in S}] :
                \A n \in S : d[n] = None \/ d[n] \in Triples(n)} :
           S \in SUBSET IssueNames}

\* validate_offer accepts exactly the valid offer dicts
ValidateAcceptsValid ==
    \A d \in OfferUniverse : validate_offer(Offer_from_dict(d)) = ValidDict(d)

\* C3 (as claimed): a FORMAL_ACCEPT applied while some issue of the game is
\* absent from the current offer, or has undecided units, sets no flag.
C3_AcceptNeedsEveryIssue ==
    [][ (StepApply(FORMAL_ACCEPT) /\ ~EveryIssueDecided(current_offer)) =>
            /\ acceptance'.human_accepted = acceptance.human_accepted
            /\ acceptance'.agent_accepted = acceptance.agent_accepted
      ]_vars

\* C4 (as claimed): every SEND_OFFER with a valid offer applied to an
\* IN_PROGRESS session replaces the current offer and clears both flags and
\* their timestamps.
C4_ValidOfferReplaces ==
    [][ ( /\ state = IN_PROGRESS
          /\ StepRecorded(SEND_OFFER)
          /\ "offer" \in DOMAIN AppliedEvent.payload
          /\ ValidDict(AppliedEvent.payload.offer) ) =>
            /\ Offer_to_dict(current_offer') = AppliedEvent.payload.offer
            /\ acceptance' = FormalAcceptance
      ]_vars

\* C4 (amended): every SEND_OFFER with a valid offer that is not the empty
\* mapping, applied to an IN_PROGRESS session, replaces the current offer
\* and clears both flags and their timestamps.
C4_NonEmptyValidOfferReplaces ==
    [][ ( /\ state = IN_PROGRESS
          /\ StepRecorded(SEND_OFFER)
          /\ "offer" \in DOMAIN AppliedEvent.payload
          /\ DOMAIN AppliedEvent.payload.offer # {}
          /\ ValidDict(AppliedEvent.payload.offer) ) =>
            /\ Offer_to_dict(current_offer') = AppliedEvent.payload.offer
            /\ acceptance' = FormalAcceptance
      ]_vars

\* a complete offer, its formal acceptance, then a valid offer from the
\* other side: the new offer is current and no flag is left
C4_Witness ==
    /\ state = IN_PROGRESS
    /\ Len(history) >= 4
    /\ LET n == Len(history)
       IN  /\ history[n].event_type = SEND_OFFER
           /\ history[n].sender_id = HUMAN_ID
           /\ ValidDict(history[n].payload.offer)
           /\ history[n - 1].event_type = FORMAL_ACCEPT
           /\ history[n - 1].sender_id = AGENT_ID
           /\ history[n - 2].event_type = SEND_OFFER
           /\ EveryIssueDecided(Offer_from_dict(history[n - 2].payload.offer))
           /\ ValidDict(history[n - 2].payload.offer)
           /\ history[n].payload.offer # history[n - 2].payload.offer
           /\ Offer_to_dict(current_offer) = history[n].payload.offer
    /\ acceptance = FormalAcceptance

\* C5: validate_offer accepts exactly the offers whose present allocations
\* sum to their issue's quantity; a SEND_OFFER with an invalid offer applied
\* to an IN_PROGRESS session leaves it IN_PROGRESS with the current offer and
\* the acceptance as they were.
C5_InvalidOfferRejected ==
    [][ /\ ValidateAcceptsValid
        /\ ( /\ state = IN_PROGRESS
             /\ StepRecorded(SEND_OFFER)
             /\ "offer" \in DOMAIN AppliedEvent.payload
             /\ ~ValidDict(AppliedEvent.payload.offer) ) =>
                /\ state' = IN_PROGRESS
                /\ UNCHANGED <<current_offer, acceptance>>
      ]_vars

\* an invalid offer has just been recorded while the human's acceptance of
\* the earlier, complete offer stands
C5_Witness ==
    /\ state = IN_PROGRESS
    /\ last_call = [op |-> "apply_event", outcome |-> "recorded",
                    event_type |-> SEND_OFFER]
    /\ ~ValidDict(history[Len(history)].payload.offer)
    /\ acceptance.human_accepted
    /\ EveryIssueDecided(current_offer)

C7_CompletedOnlyByAcceptance ==
    state = COMPLETED =>
        (acceptance.human_accepted /\ acceptance.agent_accepted)

\* C7 (amended): the session is COMPLETED only if both flags are true or
\* the history holds a GAME_END whose reason is neither "timeout" nor
\* "cancelled".
C7_CompletedByAcceptanceOrGameEnd ==
    state = COMPLETED =>
        \/ acceptance.human_accepted /\ acceptance.agent_accepted
        \/ \E k \in 1..Len(history) :
                /\ history[k].event_type = GAME_END
                /\ EndState(history[k].payload) = COMPLETED

\* completed by the two acceptances, no GAME_END having been applied
C7_Witness ==
    /\ state = COMPLETED
    /\ acceptance.human_accepted /\ acceptance.agent_accepted
    /\ \A k \in 1..Len(history) : history[k].event_type # GAME_END


(***************************************************************************)
(* Properties of the bus.                                                  *)
(***************************************************************************)
\* C10: the bus holds at most one subscription per subscriber id, the one
\* with the handler last subscribed under that id; so every dispatch calls
\* at most one handler per subscriber id, and only the handler last
\* subscribed under that id when the event was published.
C10_OneSubscriptionPerId ==
    /\ \A i, j \in 1..Len(subscriptions) :
            subscriptions[i].subscriber_id = subscriptions[j].subscriber_id
                => i = j
    /\ \A i \in 1..Len(subscriptions) :
            registered[subscriptions[i].subscriber_id]
                = Some(subscriptions[i].handler)
    /\ \A d \in 1..Len(dispatched) :
        LET calls == dispatched[d].calls
        IN  /\ \A k, l \in 1..Len(calls) :
                    calls[k].subscriber_id = calls[l].subscriber_id => k = l
            /\ \A k \in 1..Len(calls) :
                    dispatched[d].registered[calls[k].subscriber_id]
                        = Some(calls[k].handler)

\* an event went to one handler of "app", a later event to the other
\* handler, subscribed under the same id in between, and to nobody else
C10_Witness ==
    \E d, e \in 1..Len(dispatched) :
        /\ d < e
        /\ Len(dispatched[d].calls) = 1
        /\ dispatched[d].calls[1].subscriber_id = "app"
        /\ dispatched[d].calls[1].handler = "on_event"
        /\ Len(dispatched[e].calls) = 1
        /\ dispatched[e].calls[1].subscriber_id = "app"
        /\ dispatched[e].calls[1].handler = "log_event"

\* the positions of the subscriptions whose filter lets the event through:
\* no filter, or a filter that holds the type of the event
Matching(subs, event) ==
    {i \in 1..Len(subs) :
        subs[i].event_types = None
            \/ event.event_type \in subs[i].event_types[1]}

\* a step in which publish() of a zero-delay event returns or raises
StepPublishNow ==
    /\ bus_calls' = bus_calls + 1
    /\ bus_last_call'.op = "publish"
    /\ bus_last_call'.event.delay_ms = 0

\* C11: when publish() of a zero-delay event returns, the handlers called
\* for it are those of the subscriptions whose filter matches the event, one
\* call each, in the order of the subscription list, and no other handler
\* has been called.
C11_SynchronousDispatch ==
    [][ StepPublishNow =>
          /\ Len(dispatched') = Len(dispatched) + 1
          /\ SubSeq(dispatched', 1, Len(dispatched)) = dispatched
          /\ LET rec == dispatched'[Len(dispatched')]
                 m == Matching(subscriptions, bus_last_call'.event)
             IN  /\ rec.event = bus_last_call'.event
                 /\ Len(rec.calls) = Cardinality(m)
                 /\ \E pos \in [1..Len(rec.calls) -> m] :
                        /\ \A k, l \in 1..Len(rec.calls) :
                                k < l => pos[k] < pos[l]
                        /\ \A k \in 1..Len(rec.calls) :
                                /\ rec.calls[k].subscriber_id
                                        = subscriptions[pos[k]].subscriber_id
                                /\ rec.calls[k].handler
                                        = subscriptions[pos[k]].handler
      ]_vars

\* a TIME event went to both subscribers in subscription order, and an
\* event of another type only to the one without a filter
C11_Witness ==
    \E d, e \in 1..Len(dispatched) :
        /\ dispatched[d].event.event_type = TIME
        /\ Len(dispatched[d].calls) = 2
        /\ dispatched[d].calls[1].subscriber_id = "event_logger"
        /\ dispatched[d].calls[2].subscriber_id = "app"
        /\ dispatched[e].event.event_type = GAME_START
        /\ Len(dispatched[e].calls) = 1

\* C12: a handler that raises does not end the publish call: publish returns
\* normally, and the handler of every matching subscriber, those after the
\* failing one included, has been called with the event.
C12_HandlerFailureIsolated ==
    [][ StepPublishNow =>
          /\ bus_last_call'.outcome = "returned"
          /\ Len(dispatched') = Len(dispatched) + 1
          /\ LET rec == dispatched'[Len(dispatched')]
             IN  \A i \in Matching(subscriptions, bus_last_call'.event) :
                    \E k \in 1..Len(rec.calls) :
                        rec.calls[k].subscriber_id
                            = subscriptions[i].subscriber_id
      ]_vars

\* the first handler called raised and the second was called all the same
C12_Witness ==
    /\ bus_last_call.op = "publish"
    /\ bus_last_call.outcome = "returned"
    /\ Len(dispatched) > 0
    /\ LET rec == dispatched[Len(dispatched)]
       IN  /\ Len(rec.calls) = 2
           /\ rec.calls[1].raised
           /\ ~rec.calls[2].raised

(***************************************************************************)
(* Properties of the delay queue.  An event is published when it is        *)
(* created, so that its fire time is its timestamp plus its delay, and     *)
(* event ids count the calls, so that a smaller id was inserted earlier.   *)
(***************************************************************************)
FireTime(event) == event.timestamp + event.delay_ms

\* the events dispatched off the delay queue so far, in dispatch order
DelayedDispatched(log) ==
    SelectSeq(log, LAMBDA rec : rec.by = "process_delayed_events")

\* a step in which publish() of a delayed event returns or raises
StepPublishDelayed ==
    /\ bus_calls' = bus_calls + 1
    /\ bus_last_call'.op = "publish"
    /\ bus_last_call'.event.delay_ms > 0

\* C13 (as claimed): publish accepts every delayed event without
\* dispatching it, two events with the same fire time included; the events
\* dispatched off the queue come in ascending fire-time order, those with
\* the same fire time in the order they were published.
C13_DelayedInOrder ==
    [][ /\ StepPublishDelayed =>
            /\ bus_last_call'.outcome = "returned"
            /\ UNCHANGED dispatched
        /\ LET log == DelayedDispatched(dispatched')
           IN  \A i, j \in 1..Len(log) :
                  i < j =>
                    \/ FireTime(log[i].event) < FireTime(log[j].event)
                    \/ /\ FireTime(log[i].event) = FireTime(log[j].event)
                       /\ log[i].event.event_id < log[j].event.event_id
      ]_vars

\* C14 (as claimed): whichever threads publish and poll, the events
\* dispatched off the delay queue come in fire-time order: none is
\* dispatched before an event of a strictly earlier fire time.
C14_FireTimeOrderAcrossThreads ==
    LET log == DelayedDispatched(dispatched)
    IN  \A i, j \in 1..Len(log) :
            i < j => FireTime(log[i].event) <= FireTime(log[j].event)

\* the items waiting on this bus: on the queue, or taken off it by a thread
\* that has not dispatched or put them back yet
Pending ==
    {delayed_queue[k] : k \in 1..Len(delayed_queue)}
    \cup {pollers[th].held : th \in {t \in PollerIds : pollers[t].held # None}}

\* C15 (as claimed): an event published with delay d while the delay
\* processor is running is dispatched no earlier than d after its publish
\* and no later than d plus the poll interval: no dispatch is outside that
\* window, and no event waits beyond it.
C15_DelayWindow ==
    /\ LET log == DelayedDispatched(dispatched)
       IN  \A k \in 1..Len(log) :
              /\ log[k].at >= FireTime(log[k].event)
              /\ log[k].at <= FireTime(log[k].event) + PollInterval
    /\ running => \A item \in Pending : now <= item.execute_at + PollInterval

\* every event the second bus was given is due for longer than the poll
\* interval and its caller has polled since, while the delay loop of this
\* bus is neither at work nor due
Settled ==
    /\ running
    /\ LoopKeepsUp
    /\ twin.queue = <<>>
    /\ Len(twin.dispatched) > 0
    /\ \A k \in 1..Len(twin.dispatched) :
            FireTime(twin.dispatched[k]) + PollInterval <= now

\* C16 (as claimed): for the same published events and delays, the bus
\* driven by the background processor has dispatched the same sequence of
\* events (and so made the same handler calls) as the bus whose caller
\* invokes process_delayed_events() itself, once both have had the time to
\* dispatch them.
C16_ModesAgree ==
    Settled =>
        LET log == DelayedDispatched(dispatched)
        IN  [k \in 1..Len(log) |-> log[k].event] = twin.dispatched

\* the positions in the scheduler's published events of the GAME_END events
\* of one run
GameEnds(log, run) ==
    {k \in 1..Len(log) : log[k].event_type = GAME_END /\ log[k].run = run}

\* this step is the loop of the scheduler ending a turn
StepLoopFinish == loop.pc = "run" /\ loop'.pc \in {"sleep", "exited"}

\* C17: with a deadline set, the turn of the loop that finds no time
\* remaining stops the scheduler and publishes GAME_END with reason
\* "timeout", once for the run; a GAME_END is published on no other
\* occasion, and no event of the same run, TIME or GAME_END, is published
\* after it.
C17_TimeoutOnce ==
    [][ /\ (StepLoopFinish /\ is_timed_out) =>
            /\ Len(sched_published') > 0
            /\ LET last == sched_published'[Len(sched_published')]
               IN  /\ last.event_type = GAME_END
                   /\ last.payload = [reason |-> "timeout"]
                   /\ last.run = sched_start_time
            /\ Cardinality(GameEnds(sched_published', sched_start_time)) = 1
            /\ ~sched_running'
            /\ loop'.pc = "exited"
        /\ Cardinality(GameEnds(sched_published', sched_start_time))
                > Cardinality(GameEnds(sched_published, sched_start_time))
            => (StepLoopFinish /\ is_timed_out)
        /\ \A i, j \in 1..Len(sched_published') :
              (i < j /\ sched_published'[i].run = sched_published'[j].run)
                => sched_published'[i].event_type # GAME_END
      ]_vars

\* a run timed out after a TIME event of its own, and the clock has gone
\* a tick past its deadline since
C17_Witness ==
    /\ deadline # None
    /\ loop.pc = "exited"
    /\ now >= sched_start_time + deadline[1] + 1
    /\ \E i, j \in 1..Len(sched_published) :
          /\ i < j
          /\ sched_published[i].event_type = TIME
          /\ sched_published[j].event_type = GAME_END
          /\ sched_published[i].run = sched_start_time
          /\ sched_published[j].run = sched_start_time

\* C18: the scheduled actions are called in ascending order of fire time,
\* none before its fire time and none twice; the loop goes on to the next
\* action it took whether or not the one it called raised.  This with
\* schedule_action and cancel_action called between any two steps of the
\* loop.
C18_ActionsInOrder ==
    [][ /\ \A i, j \in 1..Len(executed') :
              i < j =>
                /\ executed'[i].action.execute_at
                        <= executed'[j].action.execute_at
                /\ executed'[i].action.serial # executed'[j].action.serial
        /\ \A k \in 1..Len(executed') :
              executed'[k].at >= executed'[k].action.execute_at
        /\ (loop.to_run # <<>> /\ loop'.to_run # loop.to_run) =>
              /\ loop'.to_run = Tail(loop.to_run)
              /\ loop'.pc = "run"
              /\ Len(executed') = Len(executed) + 1
              /\ executed'[Len(executed')].action = Head(loop.to_run)
      ]_vars

\* an action that raised was followed by another one, scheduled before it
\* for a later time
C18_Witness ==
    \E i, j \in 1..Len(executed) :
        /\ i < j
        /\ executed[i].raised
        /\ executed[i].action.serial > executed[j].action.serial
        /\ executed[i].action.execute_at < executed[j].action.execute_at

\* this step is a call of cancel_action
StepCancel ==
    /\ sched_calls' = sched_calls + 1
    /\ sched_last_call'.op = "cancel_action"

\* C19: cancel_action(id) returns true exactly when an action with that id
\* is in the list of pending actions; no action with that id is pending
\* afterwards, and an action it removed is never called, whatever the loop
\* and the other callers do in between.
C19_CancelPending ==
    [][ /\ StepCancel =>
            /\ sched_last_call'.result =
                    (\E k \in 1..Len(actions) :
                        actions[k].action_id = sched_last_call'.arg)
            /\ \A k \in 1..Len(actions') :
                    actions'[k].action_id # sched_last_call'.arg
        /\ \A k \in 1..Len(executed') :
                executed'[k].action \notin cancelled'
      ]_vars

\* a cancel returned true, and the loop has since ended a turn later than
\* the fire time of the action removed
C19_Witness ==
    /\ sched_last_call.op = "cancel_action"
    /\ sched_last_call.result = TRUE
    /\ loop.pc = "sleep"
    /\ \E a \in cancelled : loop.now > a.execute_at

\* the keys of both value maps of a game are its issue names
ValuesCoverIssues(issues, agent_values, human_values) ==
    /\ DOMAIN agent_values = issue_names_of(issues)
    /\ DOMAIN human_values = issue_names_of(issues)

\* C20: constructing a GameSpec raises ValueError exactly when the keys of
\* the agent's or of the human's value map are not the set of issue names;
\* otherwise the GameSpec is constructed, and every GameSpec that exists
\* has value maps whose keys are its issue names.
C20_GameSpecValidated ==
    [][ /\ game_last_call' # game_last_call =>
            LET call == game_last_call'
                covered == ValuesCoverIssues(call.issues, call.agent_values,
                                             call.human_values)
            IN  /\ (call.outcome = "ValueError") = ~covered
                /\ (call.outcome = "returned") = covered
                /\ covered =>
                      \E g \in games' :
                          /\ g.issues = call.issues
                          /\ g.agent_utility.values = call.agent_values
                          /\ g.human_utility.values = call.human_values
                /\ ~covered => games' = games
        /\ \A g \in games' :
              ValuesCoverIssues(g.issues, g.agent_utility.values,
                                g.human_utility.values)
      ]_vars

\* a game with two issues exists, and a construction with a value too many
\* in the human's map only has just failed
C20_Witness ==
    /\ \E g \in games : Cardinality(issue_names_of(g.issues)) = 2
    /\ game_last_call.outcome = "ValueError"
    /\ DOMAIN game_last_call.agent_values
            = issue_names_of(game_last_call.issues)
    /\ issue_names_of(game_last_call.issues)
            \subseteq DOMAIN game_last_call.human_values

\* C21: Event.from_dict(event.to_dict()) equals the event, for every event
\* type and payload shape, with or without a subtype, delayed or not.
C21_RoundTrip ==
    serialized # None => serialized[1].back = serialized[1].event

\* a delayed event without subtype and one with a subtype have made the
\* round trip
C21_Witness ==
    /\ serialized # None
    /\ serialized[1].event.delay_ms > 0
    /\ serialized[1].event.subtype = None
    /\ serialized[1].data.subtype = None
    /\ serialized[1].back.delay_ms > 0

\* this step is the decision layer using a member of its context
StepCtxUse == ctx # None /\ ctx' # None /\ ctx'[1].uses = ctx[1].uses + 1

\* C22 (as claimed): a built context is a read-only snapshot: no use the
\* decision layer makes of its members changes the session's current
\* offer, history or acceptance flags, and what its current_offer and
\* history members show stays what they showed when it was built, whatever
\* the session ingests later.
C22_ContextIsSnapshot ==
    [][ /\ StepCtxUse => UNCHANGED <<current_offer, history, acceptance>>
        /\ (ctx # None /\ ctx' # None /\ ~StepCtxUse) =>
              /\ ctx_current_offer' = ctx[1].offer_when_built
              /\ ctx_history' = ctx[1].history_when_built
      ]_vars

\* the type of the event that corresponds to an action of that class; a
\* FormalReject ends the negotiation
EventTypeFor(kind) ==
    IF kind = "SendMessage" THEN {SEND_MESSAGE}
    ELSE IF kind = "SendOffer" THEN {SEND_OFFER}
    ELSE IF kind = "SendExpression" THEN {SEND_EXPRESSION}
    ELSE IF kind = "FormalAccept" THEN {FORMAL_ACCEPT}
    ELSE IF kind = "FormalReject" THEN {GAME_END}
    ELSE EventType

\* C23 (as claimed): for each action the agent returned, of any of the
\* seven kinds, the app publishes a corresponding event, not before the
\* action's delay has passed; for a FormalReject an event that ends the
\* negotiation.
C23_EveryActionPublishes ==
    \A k \in 1..Len(app_executed) :
        LET done == app_executed[k]
        IN  /\ done.at >= done.returned_at + done.returned.delay_ms
            /\ done.published # None
            /\ done.published[1].event_type \in EventTypeFor(done.action.kind)

\* the sign of the value difference sends the issue to this list
StackFor(c, name) ==
    IF value_difference(c.game, name) > 0 THEN c.stacks.stack_a
    ELSE IF value_difference(c.game, name) < 0 THEN c.stacks.stack_b
    ELSE c.stacks.neutral

\* how often a name occurs in a list
Occurrences(list, name) == Cardinality({k \in 1..Len(list) : list[k] = name})

\* C24: once the stacks are built, by the constructor or by reset(), every
\* issue of the game is in exactly one of stack_a, stack_b and neutral,
\* once: in stack_a when agent value minus opponent value is positive, in
\* stack_b when it is negative, in neutral when it is zero, under every
\* strategy; and the lists hold nothing else.
C24_StackPartition ==
    core # None =>
        LET c == core[1]
            all == c.stacks.stack_a \o c.stacks.stack_b \o c.stacks.neutral
        IN  /\ Len(all) = Len(c.game.issues)
            /\ \A k \in 1..Len(c.game.issues) :
                  LET name == c.game.issues[k].name
                  IN  /\ Occurrences(all, name) = 1
                      /\ Occurrences(StackFor(c, name), name) = 1

\* a reset has rebuilt stacks with an issue in each of the three lists
C24_Witness ==
    /\ core # None
    /\ core_last_call.op = "reset"
    /\ core[1].stacks.stack_a # <<>>
    /\ core[1].stacks.stack_b # <<>>
    /\ core[1].stacks.neutral # <<>>

\* the last call returned an opening offer
OpeningReturned ==
    /\ core # None
    /\ \/ core_last_call.op = "get_opening_offer"
       \/ core_last_call.op = "make_concession" /\ core_last_call.before = None

\* C25: the opening offer passes validate_offer and is the current
\* proposal; it gives every unit of a stack_a issue to the agent; every
\* unit of a stack_b issue to the human under the cooperative strategy,
\* and otherwise half to each side with the odd unit undecided; a neutral
\* issue half to each side with the odd unit undecided.  For the fruit
\* game under the balanced strategy it is apples (4,0,0), oranges (1,1,1),
\* bananas (1,0,1).
C25_OpeningOffer ==
    OpeningReturned =>
        LET c == core[1]
            offer == core_last_call.result[1]
        IN  /\ validate_offer_of(c.game, offer)
            /\ c.current_proposal = Some(offer)
            /\ DOMAIN offer = {c.game.issues[k].name : k \in 1..Len(c.game.issues)}
            /\ \A k \in 1..Len(c.game.issues) :
                  LET name == c.game.issues[k].name
                      q == c.game.issues[k].quantity
                      split == [agent |-> q \div 2, middle |-> q % 2,
                                human |-> q \div 2]
                  IN  /\ name \in in_list(c.stacks.stack_a) =>
                            offer[name] = [agent |-> q, middle |-> 0, human |-> 0]
                      /\ name \in in_list(c.stacks.stack_b) =>
                            offer[name] =
                                IF c.strategy = COOPERATIVE
                                THEN [agent |-> 0, middle |-> 0, human |-> q]
                                ELSE split
                      /\ name \in in_list(c.stacks.neutral) => offer[name] = split
            /\ (c.game = FruitGame /\ c.strategy = BALANCED) =>
                  offer = [apples |-> [agent |-> 4, middle |-> 0, human |-> 0],
                           oranges |-> [agent |-> 1, middle |-> 1, human |-> 1],
                           bananas |-> [agent |-> 1, middle |-> 0, human |-> 1]]

\* the opening offer of the fruit game under the balanced strategy has
\* been returned
C25_Witness ==
    /\ OpeningReturned
    /\ core[1].game = FruitGame
    /\ core[1].strategy = BALANCED
    /\ core[1].current_proposal = core_last_call.result

\* the last call was a concession on a proposal, and returned an offer
ConcessionReturned ==
    /\ core # None
    /\ core_last_call.op = "make_concession"
    /\ core_last_call.before # None
    /\ core_last_call.result # None

\* the issues whose allocation differs between two offers
Changed(old, new) == {name \in DOMAIN old : new[name] # old[name]}

\* the names of a list that come before a name in it
Before(list, name) ==
    {list[j] : j \in {i \in 1..Len(list) :
                        \A k \in 1..i : list[k] # name}}

\* C26: a concession changes the previous proposal in one issue, by one
\* unit that goes to the human, every total staying the same.  The issue
\* is the first of stack_b that has a unit on the agent's side or
\* undecided (the unit taken from the agent's side if there is one, else
\* from the undecided ones); if stack_b has none, the first neutral issue
\* with a unit on the agent's side; only if neither, the stack_a issue
\* nearest the end of the stack with a unit on the agent's side.
C26_SingleUnitConcession ==
    ConcessionReturned =>
        LET c == core[1]
            old == core_last_call.before[1]
            new == core_last_call.result[1]
            held(name) ==
                Offer_getitem(old, name) # None /\ old[name].agent > 0
            open(name) ==
                Offer_getitem(old, name) # None
                    /\ (old[name].agent > 0 \/ old[name].middle > 0)
        IN  /\ DOMAIN new = DOMAIN old
            /\ c.current_proposal = Some(new)
            /\ Cardinality(Changed(old, new)) = 1
            /\ \A name \in Changed(old, new) :
                  /\ new[name].human = old[name].human + 1
                  /\ IF old[name].agent > 0
                     THEN /\ new[name].agent = old[name].agent - 1
                          /\ new[name].middle = old[name].middle
                     ELSE /\ new[name].agent = old[name].agent
                          /\ new[name].middle = old[name].middle - 1
                  /\ IF \E b \in in_list(c.stacks.stack_b) : open(b)
                     THEN /\ name \in in_list(c.stacks.stack_b)
                          /\ open(name)
                          /\ \A b \in Before(c.stacks.stack_b, name) : ~open(b)
                     ELSE IF \E n \in in_list(c.stacks.neutral) : held(n)
                     THEN /\ name \in in_list(c.stacks.neutral)
                          /\ held(name)
                          /\ \A n \in Before(c.stacks.neutral, name) : ~held(n)
                     ELSE /\ name \in in_list(c.stacks.stack_a)
                          /\ held(name)
                          /\ \A a \in Before(reversed(c.stacks.stack_a), name) :
                                ~held(a)

\* a concession had to come from stack_a, and came from its last issue
C26_Witness ==
    /\ ConcessionReturned
    /\ Len(core[1].stacks.stack_a) >= 2
    /\ Changed(core_last_call.before[1], core_last_call.result[1])
            = {core[1].stacks.stack_a[Len(core[1].stacks.stack_a)]}

\* the last call was a concession on a proposal
ConcessionAsked ==
    /\ core # None
    /\ core_last_call.op = "make_concession"
    /\ core_last_call.before # None

\* every issue of the game is wholly on the human's side in the offer
AllWithHuman(game, offer) ==
    \A k \in 1..Len(game.issues) :
        LET alloc == Offer_getitem(offer, game.issues[k].name)
        IN  alloc # None /\ alloc.human = game.issues[k].quantity

\* C27 (as claimed): make_concession returns None exactly when every issue
\* of the current proposal is wholly on the human's side; while an issue
\* has a unit on the agent's side or undecided it returns a new offer.
C27_NoneOnlyWhenExhausted ==
    ConcessionAsked =>
        ((core_last_call.result = None)
            <=> AllWithHuman(core[1].game, core_last_call.before[1]))

\* the first n elements of a list that satisfy a test
FirstOf(list, n, test(_)) ==
    {list[k] : k \in {i \in 1..Len(list) :
        /\ test(list[i])
        /\ Cardinality({j \in 1..(i - 1) : test(list[j])}) < n}}

\* C28: generate_counter returns None exactly when the opponent's offer has
\* no stack_a issue with a unit to take back (the opponent holds one and
\* the agent not all) and no stack_b issue with a unit on the agent's
\* side.  Otherwise the counter is the opponent's offer with one unit taken
\* back on the first such stack_a issues, then one unit ceded on the first
\* such stack_b issues, two issues at most in all and stack_a first; every
\* other allocation and every total is unchanged, and the counter differs
\* from the offer.
C28_CounterWithinCap ==
    (core # None /\ core_last_call.op = "generate_counter") =>
        LET c == core[1]
            offer == core_last_call.arg[1]
            result == core_last_call.result
            takes(name) ==
                /\ Offer_getitem(offer, name) # None
                /\ offer[name].human > 0
                /\ offer[name].agent < get_issue(c.game, name).quantity
            gives(name) ==
                Offer_getitem(offer, name) # None /\ offer[name].agent > 0
            taken == FirstOf(c.stacks.stack_a, max_changes, takes)
            given == FirstOf(c.stacks.stack_b,
                             max_changes - Cardinality(taken), gives)
        IN  /\ (result = None) <=> (taken = {} /\ given = {})
            /\ result # None =>
                  LET counter == result[1]
                  IN  /\ counter # offer
                      /\ c.current_proposal = result
                      /\ DOMAIN counter = DOMAIN offer
                      /\ Changed(offer, counter) = taken \cup given
                      /\ Cardinality(Changed(offer, counter)) <= 2
                      /\ \A name \in DOMAIN offer :
                            counter[name] # None =>
                                Allocation_total(counter[name])
                                    = Allocation_total(offer[name])
                      /\ \A name \in taken :
                            /\ counter[name].agent = offer[name].agent + 1
                            /\ counter[name].human = offer[name].human - 1
                      /\ \A name \in given :
                            /\ counter[name].agent = offer[name].agent - 1
                            /\ counter[name].human = offer[name].human + 1

\* a counter reached the cap on stack_a alone while stack_b had a unit to
\* cede
C28_Witness ==
    /\ core # None
    /\ core_last_call.op = "generate_counter"
    /\ core_last_call.result # None
    /\ LET offer == core_last_call.arg[1]
           counter == core_last_call.result[1]
       IN  /\ Changed(offer, counter) \subseteq in_list(core[1].stacks.stack_a)
           /\ Cardinality(Changed(offer, counter)) = 2
           /\ \E name \in in_list(core[1].stacks.stack_b) :
                  offer[name].agent > 0

\* an offer in which every issue of the game has an allocation with nothing
\* in the middle
EveryIssueSettled(game, offer) ==
    \A k \in 1..Len(game.issues) :
        LET alloc == Offer_getitem(offer, game.issues[k].name)
        IN  alloc # None /\ alloc.middle = 0

\* C29: evaluate_offer recommends accept exactly when the agent's share of
\* its maximum utility is at least the threshold and every issue of the
\* game is settled in the offer; otherwise counter_mild when the share is
\* at least 0.8 times the threshold and counter_strong below that; the
\* share is zero when the maximum utility is zero.
C29_Recommendation ==
    (core # None /\ core_last_call.op = "evaluate_offer") =>
        LET c == core[1]
            offer == core_last_call.arg[1]
            evaluation == core_last_call.result[1]
            utility == calculate(c.game.agent_values, offer)
            max_utility == get_max_possible(c.game.agent_values,
                                            c.game.issues)
            \* share >= hundredths / 100
            share_at_least(hundredths) ==
                IF max_utility = 0 THEN 0 >= hundredths
                ELSE 100 * utility >= hundredths * max_utility
            accepts == /\ share_at_least(10 * c.min_acceptable_utility)
                       /\ EveryIssueSettled(c.game, offer)
        IN  evaluation.recommendation =
                IF accepts THEN "accept"
                ELSE IF share_at_least(8 * c.min_acceptable_utility)
                THEN "counter_mild"
                ELSE "counter_strong"

\* an offer on which _generate_counter has no unit to move: no stack_a
\* issue with a unit on the opponent's side that the agent can still take,
\* no stack_b issue with a unit on the agent's side
NoUnitToMove(c, offer) ==
    /\ \A k \in 1..Len(c.stacks.stack_a) :
          LET name == c.stacks.stack_a[k]
              alloc == Offer_getitem(offer, name)
          IN  \/ alloc = None
              \/ alloc.human = 0
              \/ alloc.agent >= get_issue(c.game, name).quantity
    /\ \A k \in 1..Len(c.stacks.stack_b) :
          LET alloc == Offer_getitem(offer, c.stacks.stack_b[k])
          IN  alloc = None \/ alloc.agent = 0

\* C30: handle_offer returns accept without an offer, counter with an
\* offer that differs from the one received, or reject without an offer;
\* it returns reject only when the received offer leaves no unit to move
\* and the agent's share of its maximum utility is below 0.9 times the
\* threshold.
C30_HandleOfferOutcome ==
    (core # None /\ core_last_call.op = "handle_offer") =>
        LET c == core[1]
            offer == core_last_call.arg[1]
            returned == core_last_call.result[1]
            utility == calculate(c.game.agent_values, offer)
            max_utility == get_max_possible(c.game.agent_values,
                                            c.game.issues)
            below_relaxed_bar ==
                IF max_utility = 0 THEN 0 < 9 * c.min_acceptable_utility
                ELSE 100 * utility < 9 * c.min_acceptable_utility * max_utility
        IN  /\ returned[1] \in {"accept", "counter", "reject"}
            /\ returned[1] = "accept" => returned[2] = None
            /\ returned[1] = "counter" =>
                    /\ returned[2] # None
                    /\ returned[2][1] # offer
                    /\ c.current_proposal = returned[2]
            /\ returned[1] = "reject" =>
                    /\ returned[2] = None
                    /\ NoUnitToMove(c, offer)
                    /\ below_relaxed_bar

\* an offer with no unit to move was rejected under a positive threshold
C30_Witness ==
    /\ core # None
    /\ core_last_call.op = "handle_offer"
    /\ core_last_call.result[1][1] = "reject"
    /\ core[1].min_acceptable_utility > 0
    /\ NoUnitToMove(core[1], core_last_call.arg[1])

\* either party's acceptance is in force
Accepted == acceptance.human_accepted \/ acceptance.agent_accepted

\* C38: while an acceptance flag is set, no allocation the current offer
\* contains has undecided units; while both are set the session is
\* COMPLETED; and a step that replaces the current offer leaves both flags
\* cleared.
C38_FlagsFollowOffer ==
    /\ [](Accepted =>
            /\ DOMAIN current_offer # {}
            /\ \A name \in DOMAIN current_offer :
                  /\ current_offer[name] # None
                  /\ current_offer[name].middle = 0)
    /\ [](both_accepted(acceptance) => state = COMPLETED)
    /\ [][current_offer' # current_offer =>
            /\ ~acceptance'.human_accepted
            /\ ~acceptance'.agent_accepted]_vars

\* a complete offer was accepted, then replaced by another valid offer: no
\* flag is left
C38_Witness ==
    /\ Len(history) = 4
    /\ history[2].event_type = SEND_OFFER
    /\ Truthy(Event_get_offer(history[2]))
    /\ LET first == Offer_from_dict(Event_get_offer(history[2]))
       IN  /\ validate_offer(first)
           /\ Offer_is_complete(first)
           /\ first # current_offer
    /\ history[3].event_type = FORMAL_ACCEPT
    /\ history[4].event_type = SEND_OFFER
    /\ Truthy(Event_get_offer(history[4]))
    /\ Offer_from_dict(Event_get_offer(history[4])) = current_offer
    /\ ~Accepted

\* the units an offer gives the human
HumanUnits(offer) ==
    sum_over(DOMAIN offer,
             [name \in DOMAIN offer |->
                IF offer[name] = None THEN 0 ELSE offer[name].human])

\* _make_concession() has just returned None
Exhausted ==
    /\ core # None
    /\ core_last_call.op = "make_concession"
    /\ core_last_call.result = None

\* C39: from the opening offer on, every _make_concession() call that
\* returns an offer gives the human one unit more than the proposal before
\* it and no issue's human units go down; no more such calls succeed than
\* the game has units, a call returning None comes eventually, and every
\* call after it returns None as well.
C39_ConcessionsTerminate ==
    /\ []((core # None /\ core_last_call.op = "make_concession"
                        /\ core_last_call.before # None
                        /\ core_last_call.result # None) =>
            LET old == core_last_call.before[1]
                new == core_last_call.result[1]
            IN  /\ HumanUnits(new) = HumanUnits(old) + 1
                /\ \A name \in DOMAIN old : new[name].human >= old[name].human)
    /\ [](core # None => core[1].concession_count <= Units(core[1].game))
    /\ ((core # None /\ core[1].current_proposal # None) ~> Exhausted)
    /\ [][(Exhausted /\ core_last_call'.op = "make_concession")
            => core_last_call'.result = None]_vars

\* in the fruit game the opening offer was followed by five concessions
\* and then by a call that returned None
C39_Witness ==
    /\ Exhausted
    /\ core[1].concession_count >= 5

\* C37: a counter-offer that _generate_counter returns for a valid offer of
\* the opponent, called on its own or by handle_offer, is worth at least as
\* much to the agent as that offer.
C37_CounterNotWorse ==
    (/\ core # None
     /\ core_last_call.op \in {"generate_counter", "handle_offer"}
     /\ validate_offer_of(core[1].game, core_last_call.arg[1])) =>
        LET values == core[1].game.agent_values
            offer == core_last_call.arg[1]
            counter == IF core_last_call.op = "generate_counter"
                       THEN core_last_call.result
                       ELSE core_last_call.result[1][2]
        IN  counter # None =>
                calculate(values, counter[1]) >= calculate(values, offer)

\* C32: with two threads applying events, a session in a terminal state
\* stays in that state: COMPLETED is not followed by TIMED_OUT or
\* CANCELLED, nor either of these by another terminal state.
C32_TerminalAbsorbingUnderRace ==
    [][(state \in Terminal) => (state' = state)]_vars

\* C33: within the dispatch of an event E, a subscriber that is handed both
\* E and an event published in reaction to E is handed E first.
C33_ReplyAfterCause ==
    \A d \in 1..Len(dispatched) :
        LET rec == dispatched[d]
        IN  \A i, j \in 1..Len(rec.calls) :
                (/\ "event" \in DOMAIN rec.calls[i]
                 /\ rec.calls[i].event # rec.event
                 /\ rec.calls[j].event = rec.event
                 /\ rec.calls[j].subscriber_id = rec.calls[i].subscriber_id)
                    => j < i

\* C35: in every state of the session, can_formally_accept() of a context
\* built from that state is true exactly when can_formally_accept() of the
\* session is.
C35_ContextAgreesWithSession ==
    AgentContext_can_formally_accept(IssueNames, current_offer)
        <=> can_formally_accept

\* C36: on_formal_accept returns a FormalAccept only if the agent's utility
\* for the current offer is at least the share min_acceptable_utility of
\* its maximum possible utility.
C36_AcceptOnlyAboveThreshold ==
    (/\ core # None
     /\ core_last_call.op = "on_formal_accept"
     /\ \E k \in 1..Len(core_last_call.result[1]) :
            core_last_call.result[1][k].kind = "FormalAccept")
        => LET c == core[1]
               offer == core_last_call.arg[1]
           IN  percent_at_least(
                   calculate(c.game.agent_values, offer),
                   get_max_possible(c.game.agent_values, c.game.issues),
                   c.min_acceptable_utility, 10)

\* C34: every event occurs at most once in the history, each event being
\* published once; after start() and the publication of the event it
\* returns there is one GAME_START in the history.
C34_HistoryWithoutRepeats ==
    \A i, j \in 1..Len(history) : history[i] = history[j] => i = j

\* C31: the agent's formal acceptance is recorded only against an offer the
\* agent decided to accept: while agent_accepted is set and the current
\* offer is the human's latest, the agent returned a FormalAccept for it.
C31_AcceptanceOfEvaluatedOffer ==
    (acceptance.agent_accepted /\ last_human_offer = current_offer)
        => current_offer \in agreed

\* C40: the events of the actions the agent returns in one list are
\* published in the order of the list: an offer after the message that
\* announces it, a formal accept after the acceptance message.
C40_PublishedInListOrder ==
    \A i \in 1..Len(app_executed) :
        LET done == app_executed[i]
            announced(subtype) ==
                \E j \in 1..(i - 1) :
                    /\ app_executed[j].returned_at = done.returned_at
                    /\ app_executed[j].returned = SendMessage(subtype,
                            app_executed[j].returned.delay_ms)
        IN  /\ done.returned.kind = "SendOffer" => announced("offer_propose")
            /\ done.returned.kind = "FormalAccept" => announced("offer_accept")

====
